---- MODULE Spec2Model ----
(***************************************************************************)
(* Model of the multi-WAN failover daemon.                                 *)
(*                                                                         *)
(*   Spec     the daemon of main.py: one tick of daemon() split at the     *)
(*            calls it makes on its two clients, the router and the DNS    *)
(*            provider as environment, the clock and the interfaces        *)
(*            changing between the steps.                                  *)
(*   SpecClient  the OpnSenseClient, of main.py or of opnsense.py, driven  *)
(*            through its public methods.                                  *)
(*   SpecDns, SpecPriority, SpecDirectory  the GandiClient, the choice of  *)
(*            the priority gateway and the gateway directory alone.        *)
(*   SpecHang the daemon with an endpoint that does not answer.            *)
(*   SpecHc   the daemon with monitoring enabled.                          *)
(*   SpecCache  the Cache driven through its operations.                   *)
(*                                                                         *)
(* A client method is one atomic step.  It issues its remote calls in      *)
(* program order; the input `fail` names the remote call of the step that  *)
(* does not succeed (none when fail.at = 0) and how: "failed" is the       *)
(* answer {'status': 'failed'} (or a non-success message of the DNS        *)
(* provider), "raise" an exception of requests.  A method stops at its     *)
(* first unsuccessful call, so one failure point per step covers every     *)
(* combination of call outcomes.                                           *)
(***************************************************************************)
EXTENDS Integers, Sequences, FiniteSets, TLC

VARIABLES
    now,                \* time.time()
    ifcfg,              \* router: interface name -> list of assigned IPv4 addresses
    aliasIp,            \* router: members of alias Active_WAN (rows of list/)
    aliasId,            \* router: members of alias Active_WAN_Id
    dnsRecord,          \* DNS provider: rrset_values[0] of the A record
    cache,              \* OpnSenseClient.__cache.__store
    gcache,             \* GandiClient.__cache.__store
    hcEnabled,          \* healthchecks_config.enabled
    pc,                 \* position of the daemon inside a tick
    current_gateway,    \* daemon() local
    current_ip,         \* daemon() local
    available_gateways, \* daemon() local
    domain_ip_local,    \* daemon() local domain_ip
    impl,               \* which OpnSenseClient runs: "main" (main.py) or "lib" (opnsense.py)
    log,                \* history: the calls issued by the last step
    tick_calls,         \* history: the alias writes and DNS calls of the tick so far
    op,                 \* history: the client method executed by the last step
    outcome,            \* history: how the last tick ended
    tick_start,         \* history: the router and the DNS record when the tick started
    next_run            \* schedule: earliest start of the next tick

vars == <<now, ifcfg, aliasIp, aliasId, dnsRecord, cache, gcache, hcEnabled, pc,
          current_gateway, current_ip, available_gateways, domain_ip_local,
          impl, log, tick_calls, op, outcome, tick_start, next_run>>

(***************************************************************************)
(* Program constants                                                       *)
(***************************************************************************)
None == "None"

\* a variable of an enclosing function that has no value yet
Unbound == "<unbound>"

\* the builtin function that the name id denotes where no variable id exists
BuiltinId == "<built-in function id>"

ALL_GATEWAYS == "allactgw"
ACTIVE_GATEWAY_ID == "actgwid"
ACTIVE_GATEWAY_NAME == "actgwname"
ACTIVE_GATEWAY_IP == "actgwip"
ACTIVE_GATEWAY == "actgw"
DOMAIN_IP == "domip"

ACTIVE_WAN_ALIAS == "Active_WAN"
ACTIVE_WAN_ID_ALIAS == "Active_WAN_Id"

GatewaysTtl == 5
AliasTtl == 300
DomainTtl == 600
JobPeriod == 10

\* The configured interfaces (interfaces.json), in configuration order.
Wans ==
    << [name |-> "wan1", id |-> "opt1", priority |-> 10],
       [name |-> "wan2", id |-> "opt2", priority |-> 5] >>

WanNames == {Wans[i].name : i \in DOMAIN Wans}

\* Address lists the router may report for an interface.
IfStates ==
    [wan1 |-> {<<>>, <<"1.1.1.1">>, <<"1.1.1.9">>},
     wan2 |-> {<<>>, <<"2.2.2.2">>}]

IfConfigs == [wan1 : IfStates.wan1, wan2 : IfStates.wan2]

\* Instants at which the clock is observed: a few ticks at the job period with
\* a slow step in between, then one instant at which the alias entries of all
\* of them have expired, and one at which the DNS entries have too.
Instants == {0, 10, 15, 20, 330}

\* The instants at which a caller of the client alone acts: a call, a second
\* one after the directory entry has expired and the alias entries have not,
\* and one after all entries have expired.
ClientInstants == {0, 10, 330}

\* every remote call of the step succeeds
NoFail == [at |-> 0, kind |-> "ok"]

\* The failure points of a step that issues n remote calls when none fails:
\* a step runs as in that case up to the call that fails, and stops there.
FailInputs(n) ==
    {NoFail} \cup {[at |-> k, kind |-> r] : k \in 1..n, r \in {"failed", "raise"}}

(***************************************************************************)
(* Sequence helpers                                                        *)
(***************************************************************************)
Last(s) == s[Len(s)]

SeqRemove(s, v) == SelectSeq(s, LAMBDA x : x # v)

SeqAdd(s, v) == IF \E i \in DOMAIN s : s[i] = v THEN s ELSE Append(s, v)

(***************************************************************************)
(* Cache (main.py 14-54, cache.py)                                         *)
(***************************************************************************)
\* a cache whose entries do not expire (used to show that C20 depends on the
\* comparison with the expiration time)
Cache_contains_forever(store, key) == key \in DOMAIN store

\* `key in cache`
Cache_contains(store, key) ==
    /\ key \in DOMAIN store
    /\ now < store[key].expiration_time

\* a containment check that removes every entry that has expired (used to
\* show that C24 depends on the check looking at its key only)
Cache_touch_sweep(store, key) ==
    [k \in {j \in DOMAIN store : now < store[j].expiration_time} |-> store[k]]

\* the store after `key in cache`: an expired entry is deleted on the spot
Cache_touch(store, key) ==
    IF key \in DOMAIN store /\ ~(now < store[key].expiration_time)
    THEN [k \in DOMAIN store \ {key} |-> store[k]]
    ELSE store

\* a delete that empties the store (used to show that C23 depends on the
\* other entries being kept)
Cache_delitem_clear(store, key) == [k \in {} |-> 0]

\* `del cache[key]`
Cache_delitem(store, key) ==
    [k \in DOMAIN store \ {key} |-> store[k]]

\* a set that keeps the expiration time of an entry it overwrites (used to
\* show that C22 depends on the expiry being replaced)
Cache_setitem_keep(store, key, item, timeout) ==
    [k \in DOMAIN store \cup {key} |->
        IF k = key
        THEN [value |-> item,
              expiration_time |-> IF key \in DOMAIN store
                                  THEN store[key].expiration_time ELSE now + timeout]
        ELSE store[k]]

\* `cache[key] = item, timeout`
Cache_setitem(store, key, item, timeout) ==
    [k \in DOMAIN store \cup {key} |->
        IF k = key THEN [value |-> item, expiration_time |-> now + timeout]
        ELSE store[k]]

\* `cache[key]`: the value, None when the key is not in the cache
Cache_getitem(store, key) ==
    IF Cache_contains(store, key) THEN store[key].value ELSE None

\* Cache.expiration_time of cache.py: the timestamp, as a sequence that is
\* empty for None
Cache_expiration_time(store, key) ==
    IF Cache_contains(store, key) THEN <<store[key].expiration_time>> ELSE <<>>

\* expires_in that returns the timestamp itself (used to show that C25
\* depends on the subtraction of the time)
Cache_expires_in_timestamp(store, key) == Cache_expiration_time(store, key)

\* Cache.expires_in of cache.py: `if timestamp := self.expiration_time(key)`
\* takes None and 0 for false
Cache_expires_in(store, key) ==
    IF Cache_expiration_time(store, key) # <<>>
       /\ Cache_expiration_time(store, key)[1] # 0
    THEN <<Cache_expiration_time(store, key)[1] - now>>
    ELSE <<>>

\* Cache.__validate_timeout of cache.py.  A timeout is passed as a record that
\* tells whether it is a number (int or float), whether it is the float nan,
\* which compares false with every number, and its value otherwise.  The
\* function returns when none of its three conditions holds.
Cache_validate_timeout(timeout) ==
    IF timeout.number /\ (~timeout.nan /\ timeout.v > 0) THEN "ok"
    ELSE IF timeout.number /\ (~timeout.nan /\ timeout.v <= 0) THEN "ValueError"
    ELSE IF ~timeout.number THEN "TypeError"
    ELSE "ok"

EmptyStore == [k \in {} |-> 0]

(***************************************************************************)
(* Remote calls.  m is the state a client method works on:                 *)
(*   cache, gcache   the two clients' stores                               *)
(*   aliasIp, aliasId, dns   the remote state                              *)
(*   log             the calls issued so far                               *)
(*   n               the number of remote calls issued by this step        *)
(*   exc             an exception is propagating                           *)
(***************************************************************************)
Machine ==
    [cache |-> cache, gcache |-> gcache, aliasIp |-> aliasIp, aliasId |-> aliasId,
     dns |-> dnsRecord, log |-> <<>>, n |-> 0, exc |-> FALSE]

\* a call as the history records it: the endpoint, the alias it names, the
\* value sent, the outcome, and what the remote side held before the call
Entry(call, alias, arg, res, was) ==
    [call |-> call, alias |-> alias, arg |-> arg, res |-> res, was |-> was]

\* outcome of the next remote call of the step
Outcome(m, fail) == IF fail.at = m.n + 1 THEN fail.kind ELSE "ok"

Res(m) == Last(m.log).res

AliasRows(m, alias) == IF alias = ACTIVE_WAN_ALIAS THEN m.aliasIp ELSE m.aliasId

AliasPut(m, alias, rows) ==
    IF alias = ACTIVE_WAN_ALIAS THEN [m EXCEPT !.aliasIp = rows]
    ELSE [m EXCEPT !.aliasId = rows]

\* requests.get(...); raise_for_status(); json()
__make_get_request(m, fail, call, alias) ==
    [m EXCEPT !.n = @ + 1,
              !.log = Append(@, Entry(call, alias, "",
                                      IF Outcome(m, fail) = "ok" THEN "ok" ELSE "raise",
                                      <<>>)),
              !.exc = (Outcome(m, fail) # "ok")]

\* the request of __make_post_request as the history records it
Posted(m, fail, call, alias, value) ==
    [m EXCEPT !.n = @ + 1,
              !.log = Append(@, Entry(call, alias, value, Outcome(m, fail),
                                      AliasRows(m, alias))),
              !.exc = (Outcome(m, fail) = "raise")]

\* requests.post(url, json={'address': value}) on alias_util/add or /delete
__make_post_request(m, fail, call, alias, value) ==
    IF Outcome(m, fail) # "ok" THEN Posted(m, fail, call, alias, value)
    ELSE AliasPut(Posted(m, fail, call, alias, value), alias,
                  IF call = "delete" THEN SeqRemove(AliasRows(m, alias), value)
                  ELSE SeqAdd(AliasRows(m, alias), value))

(***************************************************************************)
(* Gateway directory: a list of gateways in the order of Wans (the         *)
(* insertion order of the dict all_gateways() builds).                     *)
(***************************************************************************)
\* the directory built with the last address of every list (used to show that
\* C14 depends on the first entry being taken)
RECURSIVE BuildGateways_last(_, _)
BuildGateways_last(r, i) ==
    IF i > Len(Wans) THEN <<>>
    ELSE IF Wans[i].name \in DOMAIN r /\ r[Wans[i].name] # <<>>
    THEN <<[name |-> Wans[i].name, ip |-> Last(r[Wans[i].name]),
            priority |-> Wans[i].priority, id |-> Wans[i].id]>>
         \o BuildGateways_last(r, i + 1)
    ELSE BuildGateways_last(r, i + 1)

RECURSIVE BuildGateways(_, _)
BuildGateways(r, i) ==
    IF i > Len(Wans) THEN <<>>
    ELSE IF Wans[i].name \in DOMAIN r /\ r[Wans[i].name] # <<>>
    THEN <<[name |-> Wans[i].name, ip |-> r[Wans[i].name][1],
            priority |-> Wans[i].priority, id |-> Wans[i].id]>>
         \o BuildGateways(r, i + 1)
    ELSE BuildGateways(r, i + 1)

InDir(gateways, name) == \E i \in DOMAIN gateways : gateways[i].name = name

DirGet(gateways, name) ==
    gateways[CHOOSE i \in DOMAIN gateways : gateways[i].name = name]

DirNames(gateways) == {gateways[i].name : i \in DOMAIN gateways}

\* all_gateways after its request: the directory is built and stored
all_gateways_store(m1, gateways) ==
    IF m1.exc THEN [m |-> m1, ret |-> <<>>]
    ELSE [m |-> [m1 EXCEPT !.cache =
                    Cache_setitem(@, ALL_GATEWAYS, gateways, GatewaysTtl)],
          ret |-> gateways]

\* all_gateways that never reads its cache entry (used to show that C8
\* depends on the directory being served from the cache)
all_gateways_uncached(m, fail) ==
    all_gateways_store(__make_get_request(m, fail, "getInterfaceConfig", ""),
                       BuildGateways(ifcfg, 1))

\* OpnSenseClient.all_gateways: [m, ret]
all_gateways(m, fail) ==
    IF Cache_contains(m.cache, ALL_GATEWAYS) /\ m.cache[ALL_GATEWAYS].value # <<>>
    THEN [m |-> m, ret |-> m.cache[ALL_GATEWAYS].value]
    ELSE all_gateways_store(
           __make_get_request([m EXCEPT !.cache = Cache_touch(@, ALL_GATEWAYS)],
                              fail, "getInterfaceConfig", ""),
           BuildGateways(ifcfg, 1))

\* get_alias_value after its request: r['rows'][0]['ip'] is read and stored
get_alias_value_store(m1, alias, cache_key) ==
    IF m1.exc THEN [m |-> m1, ret |-> None]
    ELSE IF AliasRows(m1, alias) = <<>>   \* r['rows'][0] raises IndexError
    THEN [m |-> [m1 EXCEPT !.exc = TRUE], ret |-> None]
    ELSE [m |-> [m1 EXCEPT !.cache =
                    Cache_setitem(@, cache_key, AliasRows(m1, alias)[1], AliasTtl)],
          ret |-> AliasRows(m1, alias)[1]]

\* active_gateway.get_alias_value: [m, ret]
get_alias_value(m, fail, alias, cache_key) ==
    IF Cache_contains(m.cache, cache_key)
    THEN [m |-> m, ret |-> m.cache[cache_key].value]
    ELSE get_alias_value_store(
           __make_get_request([m EXCEPT !.cache = Cache_touch(@, cache_key)],
                              fail, "list", alias),
           alias, cache_key)

\* the comprehension of active_gateway without its condition on the id (used
\* to show that C9 depends on it)
WanNamesWithId_any(gateways, id) == gateways

\* the names of the gateways whose id is `id`, in directory order
WanNamesWithId(gateways, id) ==
    SelectSeq(gateways, LAMBDA g : g.id = id)

\* active_gateway 140-150: the name is resolved in the directory g.ret; a and
\* b are the results of the two alias reads
active_gateway_resolve(a, b, g) ==
    IF g.m.exc THEN [m |-> g.m, name |-> None, ip |-> None]
    ELSE IF WanNamesWithId(g.ret, b.ret) # <<>>
    THEN [m |-> [g.m EXCEPT !.cache =
                    Cache_setitem(@, ACTIVE_GATEWAY_NAME,
                                  Last(WanNamesWithId(g.ret, b.ret)).name, AliasTtl)],
          name |-> Last(WanNamesWithId(g.ret, b.ret)).name, ip |-> a.ret]
    ELSE [m |-> [g.m EXCEPT !.cache =
                    Cache_delitem(
                      Cache_delitem(
                        Cache_delitem(@, ACTIVE_GATEWAY_NAME),
                        ACTIVE_GATEWAY_ID),
                      ACTIVE_GATEWAY_IP)],
          name |-> None, ip |-> a.ret]

\* active_gateway 137-140: the cached name, or the directory is consulted
active_gateway_name(a, b, fail) ==
    IF b.m.exc THEN [m |-> b.m, name |-> None, ip |-> None]
    ELSE IF Cache_contains(b.m.cache, ACTIVE_GATEWAY_NAME)
    THEN [m |-> b.m, name |-> b.m.cache[ACTIVE_GATEWAY_NAME].value, ip |-> a.ret]
    ELSE active_gateway_resolve(
           a, b,
           all_gateways([b.m EXCEPT !.cache = Cache_touch(@, ACTIVE_GATEWAY_NAME)],
                        fail))

\* active_gateway 134-135: the id is read after the address
active_gateway_id(a, fail) ==
    IF a.m.exc THEN [m |-> a.m, name |-> None, ip |-> None]
    ELSE active_gateway_name(
           a, get_alias_value(a.m, fail, ACTIVE_WAN_ID_ALIAS, ACTIVE_GATEWAY_ID), fail)

\* OpnSenseClient.active_gateway of main.py: [m, name, ip]
active_gateway(m, fail) ==
    active_gateway_id(
      get_alias_value(m, fail, ACTIVE_WAN_ALIAS, ACTIVE_GATEWAY_IP), fail)

\* set_alias after its second request
set_alias_second(m2) ==
    [m |-> m2, ret |-> ~(m2.exc \/ Res(m2) = "failed")]

\* set_alias after its first request: the second one is sent unless the first
\* failed
set_alias_first(m1, fail, call, alias, value) ==
    IF m1.exc \/ Res(m1) = "failed" THEN [m |-> m1, ret |-> FALSE]
    ELSE set_alias_second(__make_post_request(m1, fail, call, alias, value))

\* set_alias that adds the new entry before it deletes the old one (used to
\* show that C6 depends on the order of the two calls)
set_alias_add_first(m, fail, alias, new_value, old_value) ==
    set_alias_first(__make_post_request(m, fail, "add", alias, new_value),
                    fail, "delete", alias, old_value)

\* update_active_gateway.set_alias: [m, ret]
set_alias(m, fail, alias, new_value, old_value) ==
    set_alias_first(__make_post_request(m, fail, "delete", alias, old_value),
                    fail, "add", alias, new_value)

\* set_active_wan after set_alias, whose result is s: the cache entry is
\* written; ip is the variable of the enclosing function that the body stores,
\* Unbound when that function has not assigned it
set_active_wan_store(s, ip) ==
    IF s.m.exc \/ ~s.ret THEN [m |-> s.m, ret |-> FALSE]
    ELSE IF ip = Unbound   \* NameError
    THEN [m |-> [s.m EXCEPT !.exc = TRUE], ret |-> FALSE]
    ELSE [m |-> [s.m EXCEPT !.cache =
                    Cache_setitem(@, ACTIVE_GATEWAY_IP, ip, AliasTtl)],
          ret |-> TRUE]

\* set_active_wan without the invalidation of its first line (used to show
\* that C5 depends on it)
set_active_wan_keep(m, fail, ip, new_ip, old_ip) ==
    set_active_wan_store(set_alias(m, fail, ACTIVE_WAN_ALIAS, new_ip, old_ip), ip)

\* set_active_wan with the alias of set_active_wan_id (used to show that C3
\* depends on which alias the drift refresh writes)
set_active_wan_on_id(m, fail, ip, new_ip, old_ip) ==
    set_active_wan_store(
      set_alias([m EXCEPT !.cache = Cache_delitem(@, ACTIVE_GATEWAY_IP)],
                fail, ACTIVE_WAN_ID_ALIAS, new_ip, old_ip),
      ip)

\* update_active_gateway.set_active_wan: [m, ret]
set_active_wan(m, fail, ip, new_ip, old_ip) ==
    set_active_wan_store(
      set_alias([m EXCEPT !.cache = Cache_delitem(@, ACTIVE_GATEWAY_IP)],
                fail, ACTIVE_WAN_ALIAS, new_ip, old_ip),
      ip)

\* set_active_wan_id: r['rows'][0]['ip'] of the id alias, which is not stored
old_id_read(m1) ==
    IF m1.exc THEN [m |-> m1, ret |-> None]
    ELSE IF AliasRows(m1, ACTIVE_WAN_ID_ALIAS) = <<>>
    THEN [m |-> [m1 EXCEPT !.exc = TRUE], ret |-> None]
    ELSE [m |-> m1, ret |-> AliasRows(m1, ACTIVE_WAN_ID_ALIAS)[1]]

\* set_active_wan_id: old_id, from the cache or from the router
old_id(m, fail) ==
    IF Cache_contains(m.cache, ACTIVE_GATEWAY_ID)
    THEN [m |-> m, ret |-> m.cache[ACTIVE_GATEWAY_ID].value]
    ELSE old_id_read(
           __make_get_request([m EXCEPT !.cache = Cache_touch(@, ACTIVE_GATEWAY_ID)],
                              fail, "list", ACTIVE_WAN_ID_ALIAS))

\* set_active_wan_id of main.py after set_alias, whose result is s
set_active_wan_id_store(s, id, wan_name) ==
    IF s.m.exc \/ ~s.ret THEN [m |-> s.m, ret |-> FALSE]
    ELSE [m |-> [s.m EXCEPT !.cache =
                    Cache_setitem(
                      Cache_setitem(@, ACTIVE_GATEWAY_ID, id, AliasTtl),
                      ACTIVE_GATEWAY_NAME, wan_name, AliasTtl)],
          ret |-> TRUE]

\* set_active_wan_id of main.py once old_id is known (o)
set_active_wan_id_swap(o, fail, id, new_id, wan_name) ==
    IF o.m.exc THEN [m |-> o.m, ret |-> FALSE]
    ELSE set_active_wan_id_store(
           set_alias([o.m EXCEPT !.cache =
                         Cache_delitem(Cache_delitem(@, ACTIVE_GATEWAY_NAME),
                                       ACTIVE_GATEWAY_ID)],
                     fail, ACTIVE_WAN_ID_ALIAS, new_id, o.ret),
           id, wan_name)

\* update_active_gateway.set_active_wan_id of main.py; id is the variable of
\* the enclosing function that the body stores in the cache
set_active_wan_id(m, fail, id, new_id, wan_name) ==
    set_active_wan_id_swap(old_id(m, fail), fail, id, new_id, wan_name)

\* The result of update_active_gateway: the state, the value returned, the
\* directory and the active gateway it worked on, and the branch it took.
UpdateResult(m, ret, gateways, wan, ip, case) ==
    [m |-> m, ret |-> ret, gateways |-> gateways, wan |-> wan, ip |-> ip, case |-> case]

\* update_active_gateway returns what its last call returned (r)
update_done(r, gateways, wan, ip, case) ==
    UpdateResult(r.m, r.ret, gateways, wan, ip, case)

\* update_active_gateway 199: set_active_wan(...) and set_active_wan_id(...),
\* s is the result of the first
update_target(gateways, a, s, fail, wan_name) ==
    IF s.m.exc \/ ~s.ret
    THEN UpdateResult(s.m, FALSE, gateways, a.name, a.ip, "target")
    ELSE update_done(
           set_active_wan_id(s.m, fail, DirGet(gateways, wan_name).id,
                             DirGet(gateways, wan_name).id, wan_name),
           gateways, a.name, a.ip, "target")

\* update_active_gateway without its elif branch: the address of the active
\* gateway is never refreshed (used to show that C31 depends on that branch)
update_branch_target_only(gateways, a, fail, wan_name) ==
    IF a.m.exc THEN UpdateResult(a.m, FALSE, gateways, None, None, "raise")
    ELSE IF wan_name # None /\ wan_name # a.name /\ InDir(gateways, wan_name)
    THEN update_target(gateways, a,
                       set_active_wan(a.m, fail, DirGet(gateways, wan_name).ip,
                                      DirGet(gateways, wan_name).ip, a.ip),
                       fail, wan_name)
    ELSE UpdateResult(a.m, FALSE, gateways, a.name, a.ip, "noop")

\* update_active_gateway that swaps the ID alias too when the address of the
\* active gateway has drifted (used to show that C28 depends on the drift
\* branch calling set_active_wan alone)
update_branch_swap_id(gateways, a, fail, wan_name) ==
    IF a.m.exc THEN UpdateResult(a.m, FALSE, gateways, None, None, "raise")
    ELSE IF wan_name # None /\ wan_name # a.name /\ InDir(gateways, wan_name)
    THEN update_target(gateways, a,
                       set_active_wan(a.m, fail, DirGet(gateways, wan_name).ip,
                                      DirGet(gateways, wan_name).ip, a.ip),
                       fail, wan_name)
    ELSE IF /\ a.name # None
            /\ InDir(gateways, a.name)
            /\ DirGet(gateways, a.name).ip # a.ip
    THEN update_target(gateways, a,
                       set_active_wan(a.m, fail, DirGet(gateways, a.name).ip,
                                      DirGet(gateways, a.name).ip, a.ip),
                       fail, a.name)
    ELSE UpdateResult(a.m, FALSE, gateways, a.name, a.ip, "noop")

\* update_active_gateway that writes the address of the active gateway to
\* the alias whether it has changed or not (used to show that C27 depends on
\* the comparison with the resolved address)
update_branch_rewrite(gateways, a, fail, wan_name) ==
    IF a.m.exc THEN UpdateResult(a.m, FALSE, gateways, None, None, "raise")
    ELSE IF wan_name # None /\ wan_name # a.name /\ InDir(gateways, wan_name)
    THEN update_target(gateways, a,
                       set_active_wan(a.m, fail, DirGet(gateways, wan_name).ip,
                                      DirGet(gateways, wan_name).ip, a.ip),
                       fail, wan_name)
    ELSE IF a.name # None /\ InDir(gateways, a.name)
    THEN update_done(
           set_active_wan(a.m, fail, DirGet(gateways, a.name).ip,
                          DirGet(gateways, a.name).ip, a.ip),
           gateways, a.name, a.ip,
           IF DirGet(gateways, a.name).ip # a.ip THEN "drift" ELSE "noop")
    ELSE UpdateResult(a.m, FALSE, gateways, a.name, a.ip, "noop")

\* update_active_gateway 197-205: a is the result of active_gateway()
update_branch(gateways, a, fail, wan_name) ==
    IF a.m.exc THEN UpdateResult(a.m, FALSE, gateways, None, None, "raise")
    ELSE IF wan_name # None /\ wan_name # a.name /\ InDir(gateways, wan_name)
    THEN update_target(gateways, a,
                       set_active_wan(a.m, fail, DirGet(gateways, wan_name).ip,
                                      DirGet(gateways, wan_name).ip, a.ip),
                       fail, wan_name)
    ELSE IF /\ a.name # None
            /\ InDir(gateways, a.name)
            /\ DirGet(gateways, a.name).ip # a.ip
    THEN update_done(
           set_active_wan(a.m, fail, DirGet(gateways, a.name).ip,
                          DirGet(gateways, a.name).ip, a.ip),
           gateways, a.name, a.ip, "drift")
    ELSE UpdateResult(a.m, FALSE, gateways, a.name, a.ip, "noop")

\* update_active_gateway 190-194: g is the result of all_gateways()
update_directory(g, fail, wan_name) ==
    IF g.m.exc THEN UpdateResult(g.m, FALSE, <<>>, None, None, "raise")
    ELSE IF wan_name # None /\ ~InDir(g.ret, wan_name)
    THEN UpdateResult(g.m, FALSE, g.ret, None, None, "absent")
    ELSE update_branch(g.ret, active_gateway(g.m, fail), fail, wan_name)

\* OpnSenseClient.update_active_gateway of main.py
update_active_gateway(m, fail, wan_name) ==
    update_directory(all_gateways(m, fail), fail, wan_name)

(***************************************************************************)
(* OpnSenseClient of opnsense.py.  all_gateways, get_alias_value, set_alias *)
(* and set_active_wan read as in main.py.                                  *)
(***************************************************************************)
NoGateway == [name |-> None, id |-> None, priority |-> 0, ip |-> None]

\* OpnSenseClient.__get_wan_by_id: the first configured interface with the id
HasWanWithId(id) == \E i \in DOMAIN Wans : Wans[i].id = id

__get_wan_by_id(id) ==
    Wans[CHOOSE i \in DOMAIN Wans :
            /\ Wans[i].id = id
            /\ \A j \in 1..(i - 1) : Wans[j].id # id]

\* Gateway.from_interface
from_interface(interface, ip) ==
    [name |-> interface.name, id |-> interface.id,
     priority |-> interface.priority, ip |-> ip]

\* active_gateway of opnsense.py 323-332: the interface is looked up among the
\* configured ones; a and b are the results of the two alias reads
lib_active_gateway_resolve(a, b) ==
    IF b.m.exc THEN [m |-> b.m, gw |-> NoGateway]
    ELSE IF ~HasWanWithId(b.ret)   \* ValueError
    THEN [m |-> [b.m EXCEPT !.exc = TRUE,
                            !.cache = Cache_delitem(
                                        Cache_delitem(@, ACTIVE_GATEWAY_IP),
                                        ACTIVE_GATEWAY_ID)],
          gw |-> NoGateway]
    ELSE [m |-> [b.m EXCEPT !.cache =
                    Cache_setitem(@, ACTIVE_GATEWAY,
                                  from_interface(__get_wan_by_id(b.ret), a.ret),
                                  AliasTtl)],
          gw |-> from_interface(__get_wan_by_id(b.ret), a.ret)]

\* active_gateway of opnsense.py 321-322: the id is read after the address
lib_active_gateway_id(a, fail) ==
    IF a.m.exc THEN [m |-> a.m, gw |-> NoGateway]
    ELSE lib_active_gateway_resolve(
           a, get_alias_value(a.m, fail, ACTIVE_WAN_ID_ALIAS, ACTIVE_GATEWAY_ID))

\* OpnSenseClient.active_gateway of opnsense.py: [m, gw]; m.exc when it raises
lib_active_gateway(m, fail) ==
    IF Cache_contains(m.cache, ACTIVE_GATEWAY)
    THEN [m |-> m, gw |-> m.cache[ACTIVE_GATEWAY].value]
    ELSE lib_active_gateway_id(
           get_alias_value([m EXCEPT !.cache = Cache_touch(@, ACTIVE_GATEWAY)],
                           fail, ACTIVE_WAN_ALIAS, ACTIVE_GATEWAY_IP),
           fail)

\* set_active_wan_id of opnsense.py after set_alias, whose result is s
lib_set_active_wan_id_store(s, id) ==
    IF s.m.exc \/ ~s.ret THEN [m |-> s.m, ret |-> FALSE]
    ELSE [m |-> [s.m EXCEPT !.cache =
                    Cache_setitem(@, ACTIVE_GATEWAY_ID, id, AliasTtl)],
          ret |-> TRUE]

\* set_active_wan_id of opnsense.py once old_id is known (o)
lib_set_active_wan_id_swap(o, fail, id, new_id) ==
    IF o.m.exc THEN [m |-> o.m, ret |-> FALSE]
    ELSE lib_set_active_wan_id_store(
           set_alias([o.m EXCEPT !.cache = Cache_delitem(@, ACTIVE_GATEWAY_ID)],
                     fail, ACTIVE_WAN_ID_ALIAS, new_id, o.ret),
           id)

\* update_active_gateway.set_active_wan_id of opnsense.py; id is the name the
\* body stores in the cache
lib_set_active_wan_id(m, fail, id, new_id) ==
    lib_set_active_wan_id_swap(old_id(m, fail), fail, id, new_id)

\* update_active_gateway of opnsense.py 389: s is the result of set_active_wan
lib_update_target(gateways, old_gw, s, fail, wan_name) ==
    IF s.m.exc \/ ~s.ret
    THEN UpdateResult(s.m, FALSE, gateways, old_gw.name, old_gw.ip, "target")
    ELSE update_done(
           lib_set_active_wan_id(s.m, fail, BuiltinId, DirGet(gateways, wan_name).id),
           gateways, old_gw.name, old_gw.ip, "target")

\* update_active_gateway of opnsense.py 386-397: a is the result of
\* active_gateway().  The function assigns ip only in its elif branch and
\* never assigns id.
lib_update_branch(gateways, a, fail, wan_name) ==
    IF a.m.exc THEN UpdateResult(a.m, FALSE, gateways, None, None, "raise")
    ELSE IF wan_name # None /\ wan_name # a.gw.name /\ InDir(gateways, wan_name)
    THEN lib_update_target(gateways, a.gw,
                           set_active_wan(a.m, fail, Unbound,
                                          DirGet(gateways, wan_name).ip, a.gw.ip),
                           fail, wan_name)
    ELSE IF /\ a.gw.name # None
            /\ InDir(gateways, a.gw.name)
            /\ DirGet(gateways, a.gw.name).ip # a.gw.ip
    THEN update_done(
           set_active_wan(a.m, fail, DirGet(gateways, a.gw.name).ip,
                          DirGet(gateways, a.gw.name).ip, a.gw.ip),
           gateways, a.gw.name, a.gw.ip, "drift")
    ELSE UpdateResult(a.m, FALSE, gateways, a.gw.name, a.gw.ip, "noop")

\* update_active_gateway of opnsense.py 382-384: g is the result of
\* all_gateways()
lib_update_directory(g, fail, wan_name) ==
    IF g.m.exc THEN UpdateResult(g.m, FALSE, <<>>, None, None, "raise")
    ELSE IF wan_name # None /\ ~InDir(g.ret, wan_name)
    THEN UpdateResult(g.m, FALSE, g.ret, None, None, "absent")
    ELSE lib_update_branch(g.ret, lib_active_gateway(g.m, fail), fail, wan_name)

\* OpnSenseClient.update_active_gateway of opnsense.py
lib_update_active_gateway(m, fail, wan_name) ==
    lib_update_directory(all_gateways(m, fail), fail, wan_name)

(***************************************************************************)
(* DNS client (GandiClient)                                                *)
(***************************************************************************)
\* domain_ip after its request: rrset_values[0] is read and stored
domain_ip_store(m1) ==
    IF m1.exc THEN [m |-> m1, ret |-> None]
    ELSE [m |-> [m1 EXCEPT !.gcache =
                    Cache_setitem(@, DOMAIN_IP, m1.dns, DomainTtl)],
          ret |-> m1.dns]

\* GandiClient.domain_ip: [m, ret]
domain_ip(m, fail) ==
    IF Cache_contains(m.gcache, DOMAIN_IP)
    THEN [m |-> m, ret |-> m.gcache[DOMAIN_IP].value]
    ELSE domain_ip_store(
           __make_get_request([m EXCEPT !.gcache = Cache_touch(@, DOMAIN_IP)],
                              fail, "dns_get", ""))

\* __make_put_request of a client that sends nothing when the record already
\* holds ip (used to show that C1 depends on the request being sent)
put_unless_same(m, fail, ip) ==
    IF m.dns = ip THEN m
    ELSE [m EXCEPT !.n = @ + 1,
                   !.log = Append(@, Entry("dns_put", "", ip, Outcome(m, fail),
                                           <<m.dns>>)),
                   !.exc = (Outcome(m, fail) = "raise"),
                   !.dns = IF Outcome(m, fail) = "ok" THEN ip ELSE @]

\* GandiClient.__make_put_request: the provider stores the record and answers
\* 'DNS Record Created', or answers another message, or the request raises
__make_put_request(m, fail, ip) ==
    [m EXCEPT !.n = @ + 1,
              !.log = Append(@, Entry("dns_put", "", ip, Outcome(m, fail), <<m.dns>>)),
              !.exc = (Outcome(m, fail) = "raise"),
              !.dns = IF Outcome(m, fail) = "ok" THEN ip ELSE @]

\* set_domain_ip that writes the entry whatever the provider answered (used
\* to show that C12 depends on the confirmation)
set_domain_ip_store_unconfirmed(m1, ip) ==
    IF m1.exc THEN [m |-> m1, ret |-> FALSE]
    ELSE [m |-> [m1 EXCEPT !.gcache =
                    Cache_setitem(Cache_delitem(@, DOMAIN_IP), DOMAIN_IP, ip,
                                  DomainTtl)],
          ret |-> Res(m1) = "ok"]

\* set_domain_ip after its request: the entry is deleted, and written again
\* when the provider reported success
set_domain_ip_store(m1, ip) ==
    IF m1.exc THEN [m |-> m1, ret |-> FALSE]
    ELSE IF Res(m1) = "ok"
    THEN [m |-> [m1 EXCEPT !.gcache =
                    Cache_setitem(Cache_delitem(@, DOMAIN_IP), DOMAIN_IP, ip,
                                  DomainTtl)],
          ret |-> TRUE]
    ELSE [m |-> [m1 EXCEPT !.gcache = Cache_delitem(@, DOMAIN_IP)], ret |-> FALSE]

\* GandiClient.set_domain_ip: [m, ret]
set_domain_ip(m, fail, ip) ==
    set_domain_ip_store(__make_put_request(m, fail, ip), ip)

(***************************************************************************)
(* daemon() of main.py                                                     *)
(***************************************************************************)
\* max() in the place of min() (used to show that C2 depends on the choice
\* of the target)
PriorityGateway_highest(gateways) ==
    gateways[CHOOSE i \in DOMAIN gateways :
                /\ \A j \in DOMAIN gateways : gateways[i].priority >= gateways[j].priority
                /\ \A j \in 1..(i - 1) : gateways[j].priority < gateways[i].priority]

\* the first gateway of the directory in the place of min() (used to show
\* that C13 depends on the comparison of the priorities)
PriorityGateway_first(gateways) == gateways[1]

\* min(available_gateways.items(), key=priority): the first gateway, in
\* directory order, that no gateway undercuts
PriorityGateway(gateways) ==
    gateways[CHOOSE i \in DOMAIN gateways :
                /\ \A j \in DOMAIN gateways : gateways[i].priority <= gateways[j].priority
                /\ \A j \in 1..(i - 1) : gateways[j].priority > gateways[i].priority]

priority_gateway == PriorityGateway(available_gateways).name
priority_ip == PriorityGateway(available_gateways).ip

\* requests.get(healthchecks url, timeout=10), only when enabled: the answer
\* is not looked at, so that only an exception of requests ends the tick
Ping(m, fail, call) ==
    IF hcEnabled
    THEN [m EXCEPT !.n = @ + 1,
                   !.log = Append(@, Entry(call, "", "", Outcome(m, fail), <<>>)),
                   !.exc = (Outcome(m, fail) = "raise")]
    ELSE m

\* the failure point of the step was reached: the call it names is the last
\* one the step issued, with that outcome
FailUsed(m, fail) ==
    \/ fail.at = 0
    \/ /\ fail.at > 0
       /\ m.n = fail.at
       /\ Res(m) = fail.kind

\* the same for the first step of a tick, which goes on after a start ping
\* (the state after it is m1) that was answered with an error
FailUsedAfter(m1, m, fail) ==
    \/ FailUsed(m, fail)
    \/ /\ fail.at > 0
       /\ m1.n = fail.at
       /\ Res(m1) = fail.kind

\* a method of a client is entered
Enter(m, method, arg) ==
    [m EXCEPT !.log = Append(@, Entry(method, "", arg, "call", <<>>))]

NoOp ==
    [name |-> "none", arg |-> None, start |-> 0, ret |-> FALSE, exc |-> FALSE,
     case |-> "", gateways |-> <<>>, wan |-> None, ip |-> None]

\* what the step's method did: its name and argument, the index of its entry
\* in the log, the value returned, whether it raised, and for
\* update_active_gateway the branch, the directory and the active gateway
OpRecord(name, arg, start, m, ret, case, gateways, wan, ip) ==
    [name |-> name, arg |-> arg, start |-> start, ret |-> ret, exc |-> m.exc,
     case |-> case, gateways |-> gateways, wan |-> wan, ip |-> ip]

\* the calls the history of a tick keeps: alias writes and DNS calls
Watched == {"delete", "add", "dns_get", "dns_put"}

\* the step of the tick that is running
StepName == IF pc = "idle" THEN "start" ELSE pc

TickCalls(lg) ==
    {[step |-> StepName, call |-> lg[i].call, alias |-> lg[i].alias,
      arg |-> lg[i].arg, res |-> lg[i].res] :
        i \in {j \in DOMAIN lg : lg[j].call \in Watched}}

\* the remote state and the stores after a step
Commit(m) ==
    /\ tick_calls' = (IF pc = "idle" THEN {} ELSE tick_calls) \cup TickCalls(m.log)
    /\ cache' = m.cache
    /\ gcache' = m.gcache
    /\ aliasIp' = m.aliasIp
    /\ aliasId' = m.aliasId
    /\ dnsRecord' = m.dns
    /\ log' = m.log

Locals == <<current_gateway, current_ip, available_gateways, domain_ip_local>>

\* the tick goes on at `next` with these values of the locals
Goto(next, cg, ci, ag, dip) ==
    /\ pc' = next
    /\ current_gateway' = cg
    /\ current_ip' = ci
    /\ available_gateways' = ag
    /\ domain_ip_local' = dip
    /\ UNCHANGED <<outcome, next_run, tick_start>>

\* what the router and the DNS provider hold when daemon() is entered; stable
\* tells that the interfaces have not changed since
Snapshot ==
    [ifcfg |-> ifcfg, aliasIp |-> aliasIp, aliasId |-> aliasId, dns |-> dnsRecord,
     stable |-> TRUE]

\* a job() without its try/except: an exception of daemon() ends the process
\* (used to show that C16 depends on the handler)
End_uncaught(result) ==
    /\ pc' = IF result = "exception" THEN "exited" ELSE "idle"
    /\ outcome' = result
    /\ next_run' = now + JobPeriod
    /\ UNCHANGED tick_start
    /\ UNCHANGED Locals

\* daemon() returns or raises into job(), which logs the exception; schedule
\* plans the next run JobPeriod seconds after the job has ended
End(result) ==
    /\ pc' = "idle"
    /\ outcome' = result
    /\ next_run' = now + JobPeriod
    /\ UNCHANGED tick_start
    /\ UNCHANGED Locals

\* a scheduler that runs the job from a timer of its own, whatever the loop
\* is doing (used to show that C17 depends on run_pending() being called in
\* the loop)
Due_timer == now >= next_run

\* main() 333-335: schedule.run_pending() is called by the loop, between two
\* jobs, and runs the job when its time has come
Due ==
    /\ pc = "idle"
    /\ now >= next_run

\* daemon() 263-268: start ping, update_active_gateway()
TickStart ==
    /\ Due
    /\ \E fail \in FailInputs(update_active_gateway(
                                Ping(Machine, NoFail, "hc_start"), NoFail, None).m.n) :
       \E m1 \in {Ping(Machine, fail, "hc_start")} :
       \E m2 \in {Enter(m1, "update_active_gateway", None)} :
       \E u \in {update_active_gateway(m2, fail, None)} :
          IF m1.exc
          THEN /\ FailUsed(m1, fail)
               /\ Commit(m1)
               /\ op' = NoOp
               /\ pc' = "idle"
               /\ outcome' = "exception"
               /\ next_run' = now + JobPeriod
               /\ current_gateway' = None
               /\ current_ip' = None
               /\ available_gateways' = <<>>
               /\ domain_ip_local' = None
          ELSE /\ FailUsedAfter(m1, u.m, fail)
               /\ Commit(u.m)
               /\ op' = OpRecord("update_active_gateway", None, Len(m2.log), u.m,
                                 u.ret, u.case, u.gateways, u.wan, u.ip)
               /\ current_gateway' = None
               /\ current_ip' = None
               /\ available_gateways' = <<>>
               /\ domain_ip_local' = None
               /\ IF u.m.exc
                  THEN /\ pc' = "idle"
                       /\ outcome' = "exception"
                       /\ next_run' = now + JobPeriod
                  ELSE /\ pc' = "active_gateway"
                       /\ outcome' = "running"
                       /\ UNCHANGED next_run
    /\ tick_start' = <<Snapshot>>
    /\ UNCHANGED <<now, ifcfg, hcEnabled, impl>>

\* daemon() 269
StepActiveGateway==
    /\ pc = "active_gateway"
    /\ \E fail \in FailInputs(active_gateway(Enter(Machine, "active_gateway", None), NoFail).m.n) :
       \E m1 \in {Enter(Machine, "active_gateway", None)} :
       \E a \in {active_gateway(m1, fail)} :
          /\ FailUsed(a.m, fail)
          /\ Commit(a.m)
          /\ op' = OpRecord("active_gateway", None, Len(m1.log), a.m,
                            ~a.m.exc, "", <<>>, a.name, a.ip)
          /\ IF a.m.exc
             THEN End("exception")
             ELSE Goto("all_gateways", a.name, a.ip, available_gateways, domain_ip_local)
    /\ UNCHANGED <<now, ifcfg, hcEnabled, impl>>

\* daemon() 270-283: enumerate, abort when empty, choose the branch
StepAllGateways==
    /\ pc = "all_gateways"
    /\ \E fail \in FailInputs(all_gateways(Enter(Machine, "all_gateways", None), NoFail).m.n) :
       \E m1 \in {Enter(Machine, "all_gateways", None)} :
       \E g \in {all_gateways(m1, fail)} :
          /\ FailUsed(g.m, fail)
          /\ Commit(g.m)
          /\ op' = OpRecord("all_gateways", None, Len(m1.log), g.m,
                            ~g.m.exc, "", g.ret, None, None)
          /\ IF g.m.exc
             THEN End("exception")
             ELSE IF g.ret = <<>>
             THEN /\ pc' = "idle"
                  /\ outcome' = "no_gateways"
                  /\ next_run' = now + JobPeriod
                  /\ available_gateways' = g.ret
                  /\ UNCHANGED tick_start
                  /\ UNCHANGED <<current_gateway, current_ip, domain_ip_local>>
             ELSE Goto(IF InDir(g.ret, current_gateway)
                       THEN IF PriorityGateway(g.ret).name # current_gateway
                            THEN "switch" ELSE "domain_ip"
                       ELSE "replace",
                       current_gateway, current_ip, g.ret, domain_ip_local)
    /\ UNCHANGED <<now, ifcfg, hcEnabled, impl>>

\* daemon() 286-290: a gateway with higher priority is available
StepSwitch==
    /\ pc = "switch"
    /\ \E fail \in FailInputs(update_active_gateway(Enter(Machine, "update_active_gateway", priority_gateway), NoFail, priority_gateway).m.n) :
       \E m1 \in {Enter(Machine, "update_active_gateway", priority_gateway)} :
       \E u \in {update_active_gateway(m1, fail, priority_gateway)} :
          /\ FailUsed(u.m, fail)
          /\ Commit(u.m)
          /\ op' = OpRecord("update_active_gateway", priority_gateway, Len(m1.log),
                            u.m, u.ret, u.case, u.gateways, u.wan, u.ip)
          /\ IF u.m.exc
             THEN End("exception")
             ELSE Goto("domain_ip", priority_gateway, priority_ip,
                       available_gateways, domain_ip_local)
    /\ UNCHANGED <<now, ifcfg, hcEnabled, impl>>

\* daemon() 293-294
StepDomainIp==
    /\ pc = "domain_ip"
    /\ \E fail \in FailInputs(domain_ip(Enter(Machine, "domain_ip", None), NoFail).m.n) :
       \E m1 \in {Enter(Machine, "domain_ip", None)} :
       \E d \in {domain_ip(m1, fail)} :
          /\ FailUsed(d.m, fail)
          /\ Commit(d.m)
          /\ op' = OpRecord("domain_ip", None, Len(m1.log), d.m,
                            ~d.m.exc, "", <<>>, None, d.ret)
          /\ IF d.m.exc
             THEN End("exception")
             ELSE Goto(IF current_ip # d.ret THEN "set_domain_ip" ELSE "finish",
                       current_gateway, current_ip, available_gateways, d.ret)
    /\ UNCHANGED <<now, ifcfg, hcEnabled, impl>>

\* daemon() 297
StepSetDomainIp==
    /\ pc = "set_domain_ip"
    /\ \E fail \in FailInputs(set_domain_ip(Enter(Machine, "set_domain_ip", current_ip), NoFail, current_ip).m.n) :
       \E m1 \in {Enter(Machine, "set_domain_ip", current_ip)} :
       \E d \in {set_domain_ip(m1, fail, current_ip)} :
          /\ FailUsed(d.m, fail)
          /\ Commit(d.m)
          /\ op' = OpRecord("set_domain_ip", current_ip, Len(m1.log), d.m,
                            d.ret, "", <<>>, None, None)
          /\ IF d.m.exc
             THEN End("exception")
             ELSE Goto("finish", current_gateway, current_ip,
                       available_gateways, domain_ip_local)
    /\ UNCHANGED <<now, ifcfg, hcEnabled, impl>>

\* daemon() 304: the current gateway is dead
StepReplace==
    /\ pc = "replace"
    /\ \E fail \in FailInputs(update_active_gateway(Enter(Machine, "update_active_gateway", priority_gateway), NoFail, priority_gateway).m.n) :
       \E m1 \in {Enter(Machine, "update_active_gateway", priority_gateway)} :
       \E u \in {update_active_gateway(m1, fail, priority_gateway)} :
          /\ FailUsed(u.m, fail)
          /\ Commit(u.m)
          /\ op' = OpRecord("update_active_gateway", priority_gateway, Len(m1.log),
                            u.m, u.ret, u.case, u.gateways, u.wan, u.ip)
          /\ IF u.m.exc
             THEN End("exception")
             ELSE Goto("replace_dns", current_gateway, current_ip,
                       available_gateways, domain_ip_local)
    /\ UNCHANGED <<now, ifcfg, hcEnabled, impl>>

\* daemon() 306
StepReplaceDns==
    /\ pc = "replace_dns"
    /\ \E fail \in FailInputs(set_domain_ip(Enter(Machine, "set_domain_ip", priority_ip), NoFail, priority_ip).m.n) :
       \E m1 \in {Enter(Machine, "set_domain_ip", priority_ip)} :
       \E d \in {set_domain_ip(m1, fail, priority_ip)} :
          /\ FailUsed(d.m, fail)
          /\ Commit(d.m)
          /\ op' = OpRecord("set_domain_ip", priority_ip, Len(m1.log), d.m,
                            d.ret, "", <<>>, None, None)
          /\ IF d.m.exc
             THEN End("exception")
             ELSE Goto("finish", current_gateway, current_ip,
                       available_gateways, domain_ip_local)
    /\ UNCHANGED <<now, ifcfg, hcEnabled, impl>>

\* daemon() 308-312: success ping, the tick returns
StepFinish ==
    /\ pc = "finish"
    /\ \E fail \in FailInputs(Ping(Machine, NoFail, "hc_success").n) :
       \E m1 \in {Ping(Machine, fail, "hc_success")} :
          /\ FailUsed(m1, fail)
          /\ Commit(m1)
          /\ End(IF m1.exc THEN "exception" ELSE "ok")
    /\ op' = NoOp
    /\ UNCHANGED <<now, ifcfg, hcEnabled, impl>>

(***************************************************************************)
(* Environment                                                             *)
(***************************************************************************)
\* the record of the finished tick is dropped
Forget ==
    /\ log' = <<>>
    /\ tick_calls' = {}
    /\ op' = NoOp
    /\ outcome' = "none"
    /\ current_gateway' = None
    /\ current_ip' = None
    /\ available_gateways' = <<>>
    /\ domain_ip_local' = None
    /\ tick_start' = <<>>

\* Between two ticks nothing reads the clock before the next run is due;
\* inside a tick a slow remote call lets time pass between two steps.
Advance ==
    /\ \E t \in Instants : t > now /\ now' = t
    /\ IF pc = "idle"
       THEN now' >= next_run /\ Forget
       ELSE /\ log' = <<>>
            /\ op' = NoOp
            /\ UNCHANGED <<outcome, current_gateway, current_ip,
                           available_gateways, domain_ip_local, tick_calls,
                           tick_start>>
    /\ UNCHANGED <<ifcfg, aliasIp, aliasId, dnsRecord, cache, gcache, hcEnabled, pc,
                   impl, next_run>>

\* the next getInterfaceConfig call is answered from the cache
GatewaysCached ==
    /\ Cache_contains(cache, ALL_GATEWAYS)
    /\ cache[ALL_GATEWAYS].value # <<>>

\* Interfaces gain, lose or change their address.  The program sees the
\* interfaces only through getInterfaceConfig, so a change is recorded when the
\* next all_gateways() is going to ask the router.
IfChange ==
    /\ ~GatewaysCached
    /\ \E c \in IfConfigs : c # ifcfg /\ ifcfg' = c
    /\ tick_start' = IF tick_start = <<>> THEN tick_start
                     ELSE <<[tick_start[1] EXCEPT !.stable = FALSE]>>
    /\ log' = <<>>
    /\ op' = NoOp
    /\ UNCHANGED <<now, aliasIp, aliasId, dnsRecord, cache, gcache, hcEnabled, pc,
                   current_gateway, current_ip, available_gateways, domain_ip_local,
                   impl, tick_calls, outcome, next_run>>

(***************************************************************************)
(* Specification of the daemon                                             *)
(***************************************************************************)
\* what the administrator put into the two aliases
AliasInit ==
    {[ip |-> "1.1.1.1", id |-> "opt1"],
     [ip |-> "2.2.2.2", id |-> "opt2"],
     [ip |-> "1.1.1.1", id |-> "opt9"]}

\* the process has started: the caches are empty, the job is scheduled and no
\* tick has run
Fresh ==
    /\ now = 0
    /\ cache = EmptyStore
    /\ gcache = EmptyStore
    /\ pc = "idle"
    /\ current_gateway = None
    /\ current_ip = None
    /\ domain_ip_local = None
    /\ log = <<>>
    /\ tick_calls = {}
    /\ op = NoOp
    /\ outcome = "none"
    /\ tick_start = <<>>
    /\ next_run = JobPeriod

\* the router and the DNS provider as the process finds them
Remote ==
    /\ ifcfg = [wan1 |-> <<"1.1.1.1">>, wan2 |-> <<"2.2.2.2">>]
    /\ \E a \in AliasInit : aliasIp = <<a.ip>> /\ aliasId = <<a.id>>
    /\ dnsRecord = "1.1.1.1"

Start ==
    /\ Fresh
    /\ Remote
    /\ hcEnabled = FALSE
    /\ available_gateways = <<>>

\* main() 323-327: the daemon runs the OpnSenseClient of main.py
Init ==
    /\ Start
    /\ impl = "main"

Next ==
    \/ TickStart
    \/ StepActiveGateway
    \/ StepAllGateways
    \/ StepSwitch
    \/ StepDomainIp
    \/ StepSetDomainIp
    \/ StepReplace
    \/ StepReplaceDns
    \/ StepFinish
    \/ Advance
    \/ IfChange

Spec == Init /\ [][Next]_vars

(***************************************************************************)
(* Specification of the router client alone: a caller invokes the public   *)
(* methods of OpnSenseClient, of main.py or of opnsense.py, in any order.  *)
(***************************************************************************)
\* a result of active_gateway of opnsense.py, in the shape of main.py's
gateway_pair(a) == [m |-> a.m, name |-> a.gw.name, ip |-> a.gw.ip]

\* active_gateway() of the client in use: [m, name, ip]
client_active_gateway(m, fail) ==
    IF impl = "main" THEN active_gateway(m, fail)
    ELSE gateway_pair(lib_active_gateway(m, fail))

\* update_active_gateway(wan_name) of the client in use
client_update_active_gateway(m, fail, wan_name) ==
    IF impl = "main" THEN update_active_gateway(m, fail, wan_name)
    ELSE lib_update_active_gateway(m, fail, wan_name)

ClientFrame ==
    UNCHANGED <<now, ifcfg, hcEnabled, pc, current_gateway, current_ip,
                available_gateways, domain_ip_local, impl, outcome, tick_start,
                next_run>>

\* the caller is between two calls
Quiet == op = NoOp /\ log = <<>>

\* the caller has taken the result of its call: the record of it is dropped
Return ==
    /\ ~Quiet
    /\ log' = <<>>
    /\ op' = NoOp
    /\ tick_calls' = {}
    /\ UNCHANGED <<aliasIp, aliasId, dnsRecord, cache, gcache>>
    /\ ClientFrame

CallAllGateways ==
    /\ Quiet
    /\ \E fail \in FailInputs(all_gateways(Machine, NoFail).m.n) :
       \E m1 \in {Enter(Machine, "all_gateways", None)} :
       \E g \in {all_gateways(m1, fail)} :
          /\ FailUsed(g.m, fail)
          /\ Commit(g.m)
          /\ op' = OpRecord("all_gateways", None, Len(m1.log), g.m,
                            ~g.m.exc, "", g.ret, None, None)
    /\ ClientFrame

CallActiveGateway ==
    /\ Quiet
    /\ \E fail \in FailInputs(client_active_gateway(Machine, NoFail).m.n) :
       \E m1 \in {Enter(Machine, "active_gateway", None)} :
       \E a \in {client_active_gateway(m1, fail)} :
          /\ FailUsed(a.m, fail)
          /\ Commit(a.m)
          /\ op' = OpRecord("active_gateway", None, Len(m1.log), a.m,
                            ~a.m.exc, "", <<>>, a.name, a.ip)
    /\ ClientFrame

CallUpdateActiveGateway(wan_name) ==
    /\ Quiet
    /\ \E fail \in FailInputs(client_update_active_gateway(Machine, NoFail, wan_name).m.n) :
       \E m1 \in {Enter(Machine, "update_active_gateway", wan_name)} :
       \E u \in {client_update_active_gateway(m1, fail, wan_name)} :
          /\ FailUsed(u.m, fail)
          /\ Commit(u.m)
          /\ op' = OpRecord("update_active_gateway", wan_name, Len(m1.log), u.m,
                            u.ret, u.case, u.gateways, u.wan, u.ip)
    /\ ClientFrame

InitClient ==
    /\ Start
    /\ impl \in {"main", "lib"}

NextClient ==
    \/ CallAllGateways
    \/ CallActiveGateway
    \/ \E w \in WanNames \cup {None} : CallUpdateActiveGateway(w)
    \/ Return
    \/ Quiet /\ Advance /\ now' \in ClientInstants
    \/ Quiet /\ IfChange

SpecClient == InitClient /\ [][NextClient]_vars

(***************************************************************************)
(* Specification of the DNS client alone: a caller invokes domain_ip() and *)
(* set_domain_ip(ip) of GandiClient in any order, the clock advances       *)
(* between the calls, and the record may be edited at the provider.        *)
(***************************************************************************)
\* the addresses a caller publishes
DnsIps == {"1.1.1.1", "2.2.2.2"}

\* The instants at which the caller of the DNS client acts: two calls ten
\* seconds apart, and for each the last second before its entry expires and
\* the second at which it has.
DnsInstants == {0, 10, 599, 600, 609, 610}

CallDomainIp ==
    /\ Quiet
    /\ \E fail \in FailInputs(domain_ip(Machine, NoFail).m.n) :
       \E m1 \in {Enter(Machine, "domain_ip", None)} :
       \E d \in {domain_ip(m1, fail)} :
          /\ FailUsed(d.m, fail)
          /\ Commit(d.m)
          /\ op' = OpRecord("domain_ip", None, Len(m1.log), d.m,
                            ~d.m.exc, "", <<>>, None, d.ret)
    /\ ClientFrame

CallSetDomainIp(ip) ==
    /\ Quiet
    /\ \E fail \in FailInputs(set_domain_ip(Machine, NoFail, ip).m.n) :
       \E m1 \in {Enter(Machine, "set_domain_ip", ip)} :
       \E d \in {set_domain_ip(m1, fail, ip)} :
          /\ FailUsed(d.m, fail)
          /\ Commit(d.m)
          /\ op' = OpRecord("set_domain_ip", ip, Len(m1.log), d.m,
                            d.ret, "", <<>>, None, None)
    /\ ClientFrame

\* somebody else changes the A record at the provider
RecordEdited ==
    /\ Quiet
    /\ \E ip \in DnsIps : ip # dnsRecord /\ dnsRecord' = ip
    /\ UNCHANGED <<aliasIp, aliasId, cache, gcache, log, tick_calls, op>>
    /\ ClientFrame

\* time passes between two calls
AdvanceDns ==
    /\ Quiet
    /\ \E t \in DnsInstants : t > now /\ now' = t
    /\ UNCHANGED <<ifcfg, aliasIp, aliasId, dnsRecord, cache, gcache, hcEnabled, pc,
                   current_gateway, current_ip, available_gateways, domain_ip_local,
                   impl, log, tick_calls, op, outcome, tick_start, next_run>>

NextDns ==
    \/ CallDomainIp
    \/ \E ip \in DnsIps : CallSetDomainIp(ip)
    \/ Return
    \/ RecordEdited
    \/ AdvanceDns

SpecDns == Init /\ [][NextDns]_vars

(***************************************************************************)
(* Specification of the choice of the priority target: min() over a        *)
(* directory (daemon() 276-277, OpnSenseClient.priority_gateway of         *)
(* opnsense.py), applied to every directory of up to MaxGateways           *)
(* interfaces with priorities that may tie.                                *)
(***************************************************************************)
MaxGateways == 3

DirectoryNames == {"wan1", "wan2", "wan3"}

DirectoryPriorities == {1, 5, 10}

DirectoryEntries ==
    {[name |-> w, ip |-> "ip-of-" \o w, priority |-> p, id |-> "id-of-" \o w] :
        w \in DirectoryNames, p \in DirectoryPriorities}

\* the non-empty directories: every interface at most once, in any order
Directories ==
    UNION {{d \in [1..n -> DirectoryEntries] :
               \A i, j \in 1..n : i # j => d[i].name # d[j].name} :
           n \in 1..MaxGateways}

InitPriority ==
    /\ Fresh
    /\ Remote
    /\ hcEnabled = FALSE
    /\ impl = "main"
    /\ available_gateways \in Directories

\* priority_gateway, (priority_ip, _, _) = min(available_gateways.items(), ...)
ChoosePriority ==
    /\ Quiet
    /\ op' = OpRecord("priority_gateway", None, 0, Machine, TRUE, "",
                      available_gateways, priority_gateway, priority_ip)
    /\ UNCHANGED <<aliasIp, aliasId, dnsRecord, cache, gcache, log, tick_calls>>
    /\ ClientFrame

NextPriority == ChoosePriority

SpecPriority == InitPriority /\ [][NextPriority]_vars

(***************************************************************************)
(* Specification of the gateway directory: all_gateways() on a cold cache, *)
(* applied to every response of getInterfaceConfig over the configured     *)
(* interfaces and one that is not configured.                              *)
(***************************************************************************)
\* the interfaces a response may name: the configured ones and the LAN
ResponseNames == WanNames \cup {"lan"}

\* r[wan]['ipv4']: no address, one, or two
AddressLists == {<<>>, <<"1.1.1.1">>, <<"1.1.1.9", "1.1.1.1">>}

\* the responses: any of the interfaces, each with any of the lists
Responses == UNION {[S -> AddressLists] : S \in SUBSET ResponseNames}

InitDirectory ==
    /\ Fresh
    /\ ifcfg \in Responses
    /\ aliasIp = <<"1.1.1.1">>
    /\ aliasId = <<"opt1">>
    /\ dnsRecord = "1.1.1.1"
    /\ hcEnabled = FALSE
    /\ available_gateways = <<>>
    /\ impl = "main"

NextDirectory ==
    \/ CallAllGateways
    \/ Return

SpecDirectory == InitDirectory /\ [][NextDirectory]_vars

(***************************************************************************)
(* Specification of the daemon with an endpoint that does not answer: a    *)
(* request that was given a timeout raises when the timeout fires (the     *)
(* outcome "raise" of a step), a request that was given none waits for     *)
(* the answer.                                                             *)
(***************************************************************************)
\* the timeout= argument of the request behind a call, in seconds: the empty
\* set where the request is made without one (requests then waits forever)
RequestTimeout(call) ==
    CASE call \in {"getInterfaceConfig", "list"} -> {5}
      [] call \in {"add", "delete"} -> {}
      [] call = "dns_get" -> {5}
      [] call = "dns_put" -> {}
      [] call \in {"hc_start", "hc_success"} -> {10}

\* the state the step of daemon() at pc works on, after its calls
StepMachine(fail) ==
    CASE pc = "idle" ->
            IF Ping(Machine, fail, "hc_start").exc
            THEN Ping(Machine, fail, "hc_start")
            ELSE update_active_gateway(
                    Enter(Ping(Machine, fail, "hc_start"), "update_active_gateway", None),
                    fail, None).m
      [] pc = "active_gateway" ->
            active_gateway(Enter(Machine, "active_gateway", None), fail).m
      [] pc = "all_gateways" ->
            all_gateways(Enter(Machine, "all_gateways", None), fail).m
      [] pc \in {"switch", "replace"} ->
            update_active_gateway(
                Enter(Machine, "update_active_gateway", priority_gateway),
                fail, priority_gateway).m
      [] pc = "domain_ip" ->
            domain_ip(Enter(Machine, "domain_ip", None), fail).m
      [] pc = "set_domain_ip" ->
            set_domain_ip(Enter(Machine, "set_domain_ip", current_ip), fail, current_ip).m
      [] pc = "replace_dns" ->
            set_domain_ip(Enter(Machine, "set_domain_ip", priority_ip), fail, priority_ip).m
      [] pc = "finish" ->
            Ping(Machine, fail, "hc_success")

\* the last request of the step is waiting for its answer
Unanswered(m) ==
    [m EXCEPT !.log = [@ EXCEPT ![Len(@)].res = "unanswered"], !.exc = FALSE]

\* the endpoint does not answer the k-th request of the step, and the request
\* has no timeout: the step does not return
Hang ==
    /\ pc # "blocked"
    /\ pc = "idle" => Due
    /\ \E k \in 1..StepMachine(NoFail).n :
       \E m \in {StepMachine([at |-> k, kind |-> "raise"])} :
          /\ FailUsed(m, [at |-> k, kind |-> "raise"])
          /\ RequestTimeout(Last(m.log).call) = {}
          /\ Commit(Unanswered(m))
    /\ pc' = "blocked"
    /\ op' = NoOp
    /\ outcome' = "running"
    /\ tick_start' = IF pc = "idle" THEN <<Snapshot>> ELSE tick_start
    /\ UNCHANGED <<now, ifcfg, hcEnabled, impl, next_run, current_gateway,
                   current_ip, available_gateways, domain_ip_local>>

NextHang ==
    \/ Next
    \/ Hang

SpecHang == Init /\ [][NextHang]_vars

(***************************************************************************)
(* Specification of the daemon with monitoring enabled: the start ping and *)
(* the success ping are remote calls of the tick, and may fail.            *)
(***************************************************************************)
\* healthchecks_config.enabled is set
InitHc ==
    /\ Fresh
    /\ Remote
    /\ hcEnabled = TRUE
    /\ available_gateways = <<>>
    /\ impl = "main"

SpecHc == InitHc /\ [][Next]_vars

(***************************************************************************)
(* Specification of the Cache of cache.py alone: a caller sets, reads,     *)
(* tests and deletes keys while the clock advances.  cache is the store,   *)
(* op the last operation and its result; tick_calls keeps, for every key,  *)
(* the set that is in effect (the last one that was accepted and that was  *)
(* not followed by a delete): its key, item, time and timeout.             *)
(***************************************************************************)
MaxClock == 5

CacheKeyNames == {"k1", "k2"}

CacheItems == {"v1", "v2"}

\* the timeouts a caller passes: numbers, positive or not, the float nan, and
\* a string
CacheTimeouts ==
    {[number |-> TRUE, nan |-> FALSE, v |-> t] : t \in {-1, 0, 2, 3}} \cup
    {[number |-> TRUE, nan |-> TRUE, v |-> 0],
     [number |-> FALSE, nan |-> FALSE, v |-> 0]}

\* the operation as the history records it: the method, its key, the timeout
\* given to a set (a sequence, empty for the other methods), what it returned
\* or raised, and what the store held for the key when it was called (a
\* sequence, empty when it held nothing)
CacheOp(name, key, timeout, ret, raised) ==
    [name |-> name, arg |-> key, timeout |-> timeout, ret |-> ret, exc |-> raised,
     was |-> IF key \in DOMAIN cache THEN <<cache[key]>> ELSE <<>>]

CacheFrame ==
    UNCHANGED <<now, ifcfg, aliasIp, aliasId, dnsRecord, gcache, hcEnabled, pc,
                current_gateway, current_ip, available_gateways, domain_ip_local,
                impl, log, outcome, tick_start, next_run>>

\* cache[key] = item, timeout.  time.time() + nan is nan, and no time is below
\* nan: an entry written with the timeout nan is one that has expired at the
\* time it is written (timeout.v = 0).
CacheSet(key, item, timeout) ==
    /\ IF Cache_validate_timeout(timeout) = "ok"
       THEN /\ cache' = Cache_setitem(cache, key, item, timeout.v)
            /\ tick_calls' = {h \in tick_calls : h.key # key} \cup
                                {[key |-> key, item |-> item, at |-> now,
                                  timeout |-> timeout.v, nan |-> timeout.nan]}
       ELSE UNCHANGED <<cache, tick_calls>>
    /\ op' = CacheOp("set", key, <<timeout>>, Cache_validate_timeout(timeout),
                     Cache_validate_timeout(timeout) # "ok")
    /\ CacheFrame

\* cache[key]
CacheGet(key) ==
    /\ cache' = Cache_touch(cache, key)
    /\ op' = CacheOp("get", key, <<>>, Cache_getitem(cache, key), FALSE)
    /\ UNCHANGED tick_calls
    /\ CacheFrame

\* key in cache
CacheContains(key) ==
    /\ cache' = Cache_touch(cache, key)
    /\ op' = CacheOp("contains", key, <<>>, Cache_contains(cache, key), FALSE)
    /\ UNCHANGED tick_calls
    /\ CacheFrame

\* cache.expires_in(key)
CacheExpiresIn(key) ==
    /\ cache' = Cache_touch(cache, key)
    /\ op' = CacheOp("expires_in", key, <<>>, Cache_expires_in(cache, key), FALSE)
    /\ UNCHANGED tick_calls
    /\ CacheFrame

\* del cache[key]
CacheDel(key) ==
    /\ cache' = IF Cache_contains(cache, key) THEN Cache_delitem(cache, key)
                ELSE Cache_touch(cache, key)
    /\ op' = CacheOp("del", key, <<>>, None, FALSE)
    /\ tick_calls' = {h \in tick_calls : h.key # key}
    /\ CacheFrame

\* time.time() advances between two operations
AdvanceClock ==
    /\ now < MaxClock
    /\ now' = now + 1
    /\ op' = NoOp
    /\ UNCHANGED <<ifcfg, aliasIp, aliasId, dnsRecord, cache, gcache, hcEnabled, pc,
                   current_gateway, current_ip, available_gateways, domain_ip_local,
                   impl, log, tick_calls, outcome, tick_start, next_run>>

\* Cache(): the store is empty
InitCache ==
    /\ Fresh
    /\ ifcfg = [wan1 |-> <<>>, wan2 |-> <<>>]
    /\ aliasIp = <<>>
    /\ aliasId = <<>>
    /\ dnsRecord = "1.1.1.1"
    /\ hcEnabled = FALSE
    /\ available_gateways = <<>>
    /\ impl = "main"

NextCache ==
    \/ \E key \in CacheKeyNames, item \in CacheItems, timeout \in CacheTimeouts :
          CacheSet(key, item, timeout)
    \/ \E key \in CacheKeyNames : CacheGet(key)
    \/ \E key \in CacheKeyNames : CacheContains(key)
    \/ \E key \in CacheKeyNames : CacheExpiresIn(key)
    \/ \E key \in CacheKeyNames : CacheDel(key)
    \/ AdvanceClock

SpecCache == InitCache /\ [][NextCache]_vars

TypeOK ==
    /\ now \in Instants
    /\ pc \in {"idle", "blocked", "active_gateway", "all_gateways", "switch", "domain_ip",
               "set_domain_ip", "replace", "replace_dns", "finish"}
    /\ Len(tick_start) <= 1

(***************************************************************************)
(* Vocabulary of the properties                                            *)
(***************************************************************************)
\* the remote calls of a log, without the markers of the methods entered
RemoteCalls(lg) == SelectSeq(lg, LAMBDA e : e.res # "call")

\* the alias writes of a log
Writes(lg) == SelectSeq(lg, LAMBDA e : e.call \in {"delete", "add"})

\* every remote call of the log was answered with success
AllOk(lg) == \A i \in DOMAIN lg : lg[i].res \in {"ok", "call"}

\* the log holds an update of the DNS record to ip
DnsPut(lg, ip) == \E i \in DOMAIN lg : lg[i].call = "dns_put" /\ lg[i].arg = ip

\* the priority target of a directory: a member that no member undercuts
LowestPriority(gateways) ==
    CHOOSE g \in {gateways[i] : i \in DOMAIN gateways} :
        \A j \in DOMAIN gateways : g.priority <= gateways[j].priority

\* the active-gateway entries of a store
ActiveKeys ==
    {ACTIVE_GATEWAY_IP, ACTIVE_GATEWAY_ID, ACTIVE_GATEWAY_NAME, ACTIVE_GATEWAY}

ActiveEntries(store) == [k \in DOMAIN store \cap ActiveKeys |-> store[k]]

(***************************************************************************)
(* C1.  Dead or unresolved active gateway, directory not empty: the tick   *)
(* calls update_active_gateway(priority target) and, unless that call      *)
(* raises (which ends the tick at the job boundary), set_domain_ip(priority *)
(* IP); the update request goes to the provider whatever the record holds. *)
(***************************************************************************)
C1_DeadGatewayReplaced ==
    [][ /\ (pc = "all_gateways" /\ pc' \notin {"all_gateways", "idle"})
           => (pc' = "replace" <=> ~InDir(available_gateways', current_gateway))
        /\ (pc = "replace" /\ pc' # "replace")
           => /\ op'.name = "update_active_gateway"
              /\ op'.arg = LowestPriority(available_gateways).name
              /\ (op'.exc \/ pc' = "replace_dns")
        /\ (pc = "replace_dns" /\ pc' # "replace_dns")
           => /\ op'.name = "set_domain_ip"
              /\ op'.arg = LowestPriority(available_gateways).ip
              /\ DnsPut(log', LowestPriority(available_gateways).ip)
      ]_vars

\* the dead branch has published an IP that the record already held
C1_Witness ==
    /\ pc = "finish"
    /\ op.name = "set_domain_ip"
    /\ \E c \in tick_calls : c.step = "replace" /\ c.call = "add" /\ c.res = "ok"
    /\ \E i \in DOMAIN log :
          /\ log[i].call = "dns_put"
          /\ log[i].res = "ok"
          /\ log[i].was = <<log[i].arg>>

(***************************************************************************)
(* C2.  Active gateway alive, priority target another gateway: the tick    *)
(* calls update_active_gateway(target), adopts the target as current and   *)
(* publishes its IP exactly when it differs from the DNS record.  A tick   *)
(* that sees wan1 and wan2 up, moves both aliases from wan1 to wan2 and    *)
(* has every remote call succeed ends with both aliases designating wan2   *)
(* and the record equal to 2.2.2.2.                                        *)
(***************************************************************************)
C2_HandoverCalls ==
    {[step |-> "switch", call |-> "delete", alias |-> ACTIVE_WAN_ALIAS,
      arg |-> "1.1.1.1", res |-> "ok"],
     [step |-> "switch", call |-> "add", alias |-> ACTIVE_WAN_ALIAS,
      arg |-> "2.2.2.2", res |-> "ok"],
     [step |-> "switch", call |-> "delete", alias |-> ACTIVE_WAN_ID_ALIAS,
      arg |-> "opt1", res |-> "ok"],
     [step |-> "switch", call |-> "add", alias |-> ACTIVE_WAN_ID_ALIAS,
      arg |-> "opt2", res |-> "ok"]}

C2_HandoverDone ==
    /\ pc = "idle"
    /\ outcome = "ok"
    /\ DirNames(available_gateways) = {"wan1", "wan2"}
    /\ C2_HandoverCalls \subseteq tick_calls
    /\ \A c \in tick_calls : c.res = "ok"

C2_PriorityHandover ==
    [][ /\ (pc = "all_gateways" /\ pc' \notin {"all_gateways", "idle"})
           => (pc' = "switch" <=>
                 /\ InDir(available_gateways', current_gateway)
                 /\ LowestPriority(available_gateways').name # current_gateway)
        /\ (pc = "switch" /\ pc' # "switch")
           => /\ op'.name = "update_active_gateway"
              /\ op'.arg = LowestPriority(available_gateways).name
              /\ \/ op'.exc
                 \/ /\ pc' = "domain_ip"
                    /\ current_gateway' = LowestPriority(available_gateways).name
                    /\ current_ip' = LowestPriority(available_gateways).ip
        /\ (pc = "domain_ip" /\ pc' \notin {"domain_ip", "idle"})
           => /\ pc' \in {"set_domain_ip", "finish"}
              /\ pc' = "set_domain_ip" <=> current_ip # dnsRecord
        /\ (pc = "set_domain_ip" /\ pc' # "set_domain_ip")
           => /\ op'.name = "set_domain_ip"
              /\ DnsPut(log', current_ip)
        /\ C2_HandoverDone'
           => /\ aliasIp' = <<"2.2.2.2">>
              /\ aliasId' = <<"opt2">>
              /\ dnsRecord' = "2.2.2.2"
      ]_vars

\* the tick of the scenario has ended: the record was 1.1.1.1 and is 2.2.2.2
C2_Witness ==
    /\ C2_HandoverDone
    /\ domain_ip_local = "1.1.1.1"
    /\ [step |-> "set_domain_ip", call |-> "dns_put", alias |-> "",
        arg |-> "2.2.2.2", res |-> "ok"] \in tick_calls
    /\ aliasIp = <<"2.2.2.2">>
    /\ aliasId = <<"opt2">>
    /\ dnsRecord = "2.2.2.2"

(***************************************************************************)
(* C3.  As stated: a tick whose enumeration is empty has issued, from its  *)
(* first step on, no alias add or delete and no call to the DNS provider.  *)
(***************************************************************************)
C3_NoCallsWhenEmpty ==
    outcome = "no_gateways" => tick_calls = {}

\* C3 as it holds: such a tick issues no call to the DNS provider and, from
\* the resolution of the active gateway on, no alias write; the only alias
\* writes it can have issued are the delete and the add on the IP alias of
\* the drift refresh of its first step, which saw an earlier directory.
C3_NoCallsAfterRefresh ==
    outcome = "no_gateways" =>
        /\ pc = "idle"
        /\ available_gateways = <<>>
        /\ \A c \in tick_calls :
              /\ c.step = "start"
              /\ c.alias = ACTIVE_WAN_ALIAS
              /\ c.call \in {"delete", "add"}

\* a tick has asked the router, found no gateway and has issued no watched call
C3_Witness ==
    /\ outcome = "no_gateways"
    /\ op.name = "all_gateways"
    /\ Len(RemoteCalls(log)) = 1
    /\ tick_calls = {}

(***************************************************************************)
(* C4.  Self-healing, in the form a finite run refutes: a tick that starts *)
(* with gateways up and in which every remote call succeeds does not end   *)
(* in an exception with the aliases, the DNS record and the active-gateway *)
(* cache entries exactly as it found them (the next tick would repeat it). *)
(***************************************************************************)
C4_SelfHealing ==
    [][ ( /\ pc = "idle"
          /\ pc' = "idle"
          /\ outcome' = "exception"
          /\ RemoteCalls(log') # <<>>
          /\ AllOk(log')
          /\ BuildGateways(ifcfg, 1) # <<>> )
        => \/ <<aliasIp', aliasId', dnsRecord'>> # <<aliasIp, aliasId, dnsRecord>>
           \/ ActiveEntries(cache') # ActiveEntries(cache)
      ]_vars

\* the state no tick leaves: an alias is empty and its entry is not cached
Trapped ==
    \/ aliasIp = <<>> /\ ACTIVE_GATEWAY_IP \notin DOMAIN cache
    \/ aliasId = <<>> /\ ACTIVE_GATEWAY_ID \notin DOMAIN cache

C4_TrapIsClosed == [][Trapped => Trapped']_vars

(***************************************************************************)
(* C5.  update_active_gateway: when the delete of an alias swap succeeds   *)
(* and its add does not, the method does not return True, issues no        *)
(* further delete or add on that alias, the alias holds neither the value  *)
(* deleted nor the value that was to be added, and the cache entry of the  *)
(* alias (actgwip, actgwid) is absent.                                     *)
(***************************************************************************)
AliasNow(alias) == IF alias = ACTIVE_WAN_ALIAS THEN aliasIp ELSE aliasId

AliasKey(alias) ==
    IF alias = ACTIVE_WAN_ALIAS THEN ACTIVE_GATEWAY_IP ELSE ACTIVE_GATEWAY_ID

C5_PartialSwap ==
    op.name = "update_active_gateway" =>
        \A i, j \in DOMAIN log :
            ( /\ i < j
              /\ log[i].call = "delete"
              /\ log[i].res = "ok"
              /\ log[j].call = "add"
              /\ log[j].alias = log[i].alias
              /\ log[j].res # "ok" )
            => /\ ~op.ret
               /\ \A k \in DOMAIN log :
                     k > j => ~(log[k].call \in {"delete", "add"}
                                /\ log[k].alias = log[j].alias)
               /\ \A r \in DOMAIN AliasNow(log[j].alias) :
                     AliasNow(log[j].alias)[r] \notin {log[i].arg, log[j].arg}
               /\ AliasKey(log[j].alias) \notin DOMAIN cache

\* the partial swap of the client of main.py alone
C5_PartialSwapMain == impl = "main" => C5_PartialSwap

\* the IP alias was emptied: its delete succeeded and its add was refused
C5_Witness ==
    /\ op.name = "update_active_gateway"
    /\ ~op.ret
    /\ aliasIp = <<>>
    /\ \E i \in DOMAIN log :
          /\ i + 1 \in DOMAIN log
          /\ log[i].call = "delete"
          /\ log[i].alias = ACTIVE_WAN_ALIAS
          /\ log[i].res = "ok"
          /\ log[i + 1].call = "add"
          /\ log[i + 1].alias = ACTIVE_WAN_ALIAS
          /\ log[i + 1].res = "failed"

(***************************************************************************)
(* C6.  update_active_gateway(target), target in the directory and not the *)
(* active gateway: the alias writes are issued in the order IP delete, IP  *)
(* add, ID delete, ID add; every write but the last one issued succeeded   *)
(* (so the ID writes follow two successful IP writes and no add follows a  *)
(* failed delete); a write that did not succeed makes the method not       *)
(* return True, and it returns True only after all four succeeded.         *)
(***************************************************************************)
SwapOrder ==
    << [call |-> "delete", alias |-> ACTIVE_WAN_ALIAS],
       [call |-> "add", alias |-> ACTIVE_WAN_ALIAS],
       [call |-> "delete", alias |-> ACTIVE_WAN_ID_ALIAS],
       [call |-> "add", alias |-> ACTIVE_WAN_ID_ALIAS] >>

C6_SwapOrder ==
    (op.name = "update_active_gateway" /\ op.case = "target") =>
        LET w == Writes(log)
        IN /\ Len(w) <= Len(SwapOrder)
           /\ \A i \in DOMAIN w :
                 /\ w[i].call = SwapOrder[i].call
                 /\ w[i].alias = SwapOrder[i].alias
                 /\ i < Len(w) => w[i].res = "ok"
           /\ (\E i \in DOMAIN w : w[i].res # "ok") => ~op.ret
           /\ op.ret => Len(w) = Len(SwapOrder) /\ AllOk(log)

\* a switch has issued all four writes and returned True
C6_Witness ==
    /\ op.name = "update_active_gateway"
    /\ op.case = "target"
    /\ op.ret
    /\ Len(Writes(log)) = 4
    /\ aliasIp = <<DirGet(op.gateways, op.arg).ip>>
    /\ aliasId = <<DirGet(op.gateways, op.arg).id>>

(***************************************************************************)
(* C7.  Round trip: when update_active_gateway has returned True, an       *)
(* active_gateway() call at that moment issues no remote call and returns  *)
(* the gateway now active (the target, or the gateway refreshed) with the  *)
(* IP just written to the alias.                                           *)
(***************************************************************************)
C7_NewName == IF op.case = "target" THEN op.arg ELSE op.wan

C7_RoundTrip ==
    (op.name = "update_active_gateway" /\ op.ret) =>
        LET a == client_active_gateway(Machine, NoFail)
        IN /\ a.m.n = 0
           /\ ~a.m.exc
           /\ a.name = C7_NewName
           /\ a.ip = DirGet(op.gateways, C7_NewName).ip
           /\ aliasIp = <<a.ip>>

\* the round trip of the client of main.py alone
C7_RoundTripMain == impl = "main" => C7_RoundTrip

(***************************************************************************)
(* C8.  As stated: update_active_gateway(X), X not in the directory,       *)
(* returns False and issues no remote call at all, whatever the cache      *)
(* holds.                                                                  *)
(***************************************************************************)
C8_NoRemoteCall ==
    (op.name = "update_active_gateway" /\ op.case = "absent") =>
        /\ ~op.ret
        /\ RemoteCalls(log) = <<>>

\* C8 as it holds: the method returns False without raising, leaves the
\* aliases alone and issues no alias call; it issues no remote call at all
\* when the directory is served from the cache, and exactly the one
\* getInterfaceConfig query that establishes the directory when it is not.
C8_FailsFast ==
    [][ (Quiet /\ op'.name = "update_active_gateway" /\ op'.case = "absent")
        => /\ ~op'.ret
           /\ ~op'.exc
           /\ ~InDir(op'.gateways, op'.arg)
           /\ \A i \in DOMAIN RemoteCalls(log') :
                 RemoteCalls(log')[i].call = "getInterfaceConfig"
           /\ Len(RemoteCalls(log')) = IF GatewaysCached THEN 0 ELSE 1
           /\ UNCHANGED <<aliasIp, aliasId, dnsRecord>>
      ]_vars

\* a switch to a gateway that the cached directory does not hold
C8_Witness ==
    /\ op.name = "update_active_gateway"
    /\ op.case = "absent"
    /\ op.gateways # <<>>
    /\ ~op.ret
    /\ RemoteCalls(log) = <<>>

(***************************************************************************)
(* C9.  active_gateway(), both aliases holding a value and every remote    *)
(* call answered, the ID alias holding an id of no configured interface:   *)
(* it reports no name (main.py returns None for it, opnsense.py raises     *)
(* ValueError), and afterwards none of the active-gateway cache entries    *)
(* (actgwip, actgwid, actgwname, actgw) is present.                        *)
(***************************************************************************)
C9_Unresolved ==
    ( /\ op.name = "active_gateway"
      /\ AllOk(log)
      /\ aliasIp # <<>>
      /\ aliasId # <<>>
      /\ ~HasWanWithId(aliasId[1]) )
    => /\ op.wan = None
       /\ impl = "main" => ~op.exc /\ op.ip = aliasIp[1]
       /\ impl = "lib" => op.exc
       /\ DOMAIN cache \cap ActiveKeys = {}

\* the resolver has read both aliases and the directory and found no name
C9_Witness ==
    /\ op.name = "active_gateway"
    /\ impl = "main"
    /\ aliasId = <<"opt9">>
    /\ Len(RemoteCalls(log)) = 3
    /\ AllOk(log)
    /\ op.wan = None
    /\ ~op.exc

(***************************************************************************)
(* C10.  active_gateway(), both aliases holding a value and every remote   *)
(* call answered, the ID alias holding the id of a configured interface:   *)
(* it returns the name of that interface, also when the interface has no   *)
(* IPv4 address, and keeps the id in the cache.                            *)
(***************************************************************************)
C10_ResolvesConfigured ==
    ( /\ op.name = "active_gateway"
      /\ AllOk(log)
      /\ aliasIp # <<>>
      /\ aliasId # <<>>
      /\ HasWanWithId(aliasId[1]) )
    => /\ ~op.exc
       /\ op.wan = __get_wan_by_id(aliasId[1]).name
       /\ Cache_contains(cache, ACTIVE_GATEWAY_ID)

\* the resolver of opnsense.py alone
C10_ResolvesConfiguredLib == impl = "lib" => C10_ResolvesConfigured

(***************************************************************************)
(* C11.  A set_domain_ip(ip) that does not end in confirmed success, the   *)
(* provider answering another message or the request raising, leaves no    *)
(* DNS entry in the cache, so that the next domain_ip() asks the provider. *)
(***************************************************************************)
C11_FailedPublishClearsCache ==
    (op.name = "set_domain_ip" /\ ~op.ret) => ~Cache_contains(gcache, DOMAIN_IP)

\* C11 when the provider answered: the entry is deleted after the answer
C11_RejectedPublishClearsCache ==
    (op.name = "set_domain_ip" /\ ~op.ret /\ ~op.exc)
        => ~Cache_contains(gcache, DOMAIN_IP)

\* the request of set_domain_ip raised while the cache held an entry
C11_RaisedWithEntry ==
    /\ op.name = "set_domain_ip"
    /\ op.exc
    /\ Cache_contains(gcache, DOMAIN_IP)

(***************************************************************************)
(* C12.  The DNS entry of the cache is a value fetched from the provider   *)
(* or a value whose update the provider confirmed: a confirmed             *)
(* set_domain_ip(ip) leaves the entry ip with 600 s to live, domain_ip()   *)
(* answers from an entry that has not expired without a remote call, and   *)
(* no step writes an entry other than a fetched or a confirmed value.      *)
(***************************************************************************)
C12_CacheHoldsConfirmed ==
    [][Quiet =>
        /\ (op'.name = "set_domain_ip" /\ op'.ret)
             => /\ DOMAIN_IP \in DOMAIN gcache'
                /\ gcache'[DOMAIN_IP] =
                     [value |-> op'.arg, expiration_time |-> now + DomainTtl]
        /\ (op'.name = "domain_ip" /\ Cache_contains(gcache, DOMAIN_IP))
             => /\ RemoteCalls(log') = <<>>
                /\ op'.ip = gcache[DOMAIN_IP].value
        /\ (/\ DOMAIN_IP \in DOMAIN gcache'
            /\ \/ DOMAIN_IP \notin DOMAIN gcache
               \/ gcache'[DOMAIN_IP] # gcache[DOMAIN_IP])
             => \/ /\ op'.name = "domain_ip"
                   /\ gcache'[DOMAIN_IP].value = dnsRecord
                   /\ \E i \in DOMAIN log' :
                        log'[i].call = "dns_get" /\ log'[i].res = "ok"
                \/ /\ op'.name = "set_domain_ip"
                   /\ gcache'[DOMAIN_IP].value = op'.arg
                   /\ \E i \in DOMAIN log' :
                        /\ log'[i].call = "dns_put"
                        /\ log'[i].arg = op'.arg
                        /\ log'[i].res = "ok"
    ]_vars

\* domain_ip() answered from the entry a confirmed set_domain_ip had written,
\* in the last second before the entry expires
C12_Witness ==
    /\ op.name = "domain_ip"
    /\ RemoteCalls(log) = <<>>
    /\ Cache_contains(gcache, DOMAIN_IP)
    /\ op.ip = "2.2.2.2"
    /\ dnsRecord = "2.2.2.2"
    /\ gcache[DOMAIN_IP].expiration_time = now + 1

(***************************************************************************)
(* C13.  The priority target of a non-empty directory is a member of the   *)
(* directory, and no member has a lower priority number.                   *)
(***************************************************************************)
C13_TargetIsLowest ==
    op.name = "priority_gateway" =>
        \E i \in DOMAIN available_gateways :
            /\ available_gateways[i].name = op.wan
            /\ available_gateways[i].ip = op.ip
            /\ \A j \in DOMAIN available_gateways :
                 available_gateways[i].priority <= available_gateways[j].priority

\* the directory {wan1: 10, wan2: 5, wan3: 5}: the target has priority 5
C13_Witness ==
    /\ op.name = "priority_gateway"
    /\ Len(available_gateways) = 3
    /\ available_gateways[1].name = "wan1" /\ available_gateways[1].priority = 10
    /\ available_gateways[2].name = "wan2" /\ available_gateways[2].priority = 5
    /\ available_gateways[3].name = "wan3" /\ available_gateways[3].priority = 5
    /\ op.wan = "wan2"

(***************************************************************************)
(* C14.  all_gateways() on a cache miss returns the configured interfaces  *)
(* that the response holds with a non-empty IPv4 list, each with the first *)
(* address of its list; a configured interface that is absent or has an    *)
(* empty list is left out without an error, and no other interface         *)
(* appears.                                                                *)
(***************************************************************************)
C14_Directory ==
    (/\ op.name = "all_gateways"
     /\ \E i \in DOMAIN log : log[i].call = "getInterfaceConfig" /\ log[i].res = "ok")
    => /\ ~op.exc
       /\ \A i \in DOMAIN Wans :
            (Wans[i].name \in DOMAIN ifcfg /\ ifcfg[Wans[i].name] # <<>>)
            <=> \E k \in DOMAIN op.gateways : op.gateways[k].name = Wans[i].name
       /\ \A k \in DOMAIN op.gateways :
            /\ op.gateways[k].name \in WanNames
            /\ op.gateways[k].name \in DOMAIN ifcfg
            /\ ifcfg[op.gateways[k].name] # <<>>
            /\ op.gateways[k].ip = ifcfg[op.gateways[k].name][1]
            /\ \A j \in DOMAIN op.gateways :
                 op.gateways[j].name = op.gateways[k].name => j = k

\* the response names the LAN and wan2 with two addresses, and not wan1: the
\* directory holds wan2 alone, with the first address
C14_Witness ==
    /\ op.name = "all_gateways"
    /\ \E i \in DOMAIN log : log[i].call = "getInterfaceConfig" /\ log[i].res = "ok"
    /\ DOMAIN ifcfg = {"lan", "wan2"}
    /\ ifcfg["lan"] = <<"1.1.1.1">>
    /\ ifcfg["wan2"] = <<"1.1.1.9", "1.1.1.1">>
    /\ Len(op.gateways) = 1
    /\ op.gateways[1].name = "wan2"
    /\ op.gateways[1].ip = "1.1.1.9"

(***************************************************************************)
(* C15.  While the directory entry written by a remote query has not       *)
(* expired (5 s), all_gateways() returns the stored result without a       *)
(* remote call, whatever the result was, the empty directory included;     *)
(* once the entry has expired the call asks the router again.              *)
(***************************************************************************)
C15_CachedFiveSeconds ==
    [][(/\ Quiet
        /\ op'.name = "all_gateways"
        /\ ALL_GATEWAYS \in DOMAIN cache)
       => IF now < cache[ALL_GATEWAYS].expiration_time
          THEN /\ RemoteCalls(log') = <<>>
               /\ op'.gateways = cache[ALL_GATEWAYS].value
          ELSE RemoteCalls(log') # <<>>
    ]_vars

\* C15 for the directories that hold a gateway
C15_NonEmptyCachedFiveSeconds ==
    [][(/\ Quiet
        /\ op'.name = "all_gateways"
        /\ ALL_GATEWAYS \in DOMAIN cache
        /\ cache[ALL_GATEWAYS].value # <<>>)
       => IF now < cache[ALL_GATEWAYS].expiration_time
          THEN /\ RemoteCalls(log') = <<>>
               /\ op'.gateways = cache[ALL_GATEWAYS].value
          ELSE RemoteCalls(log') # <<>>
    ]_vars

(***************************************************************************)
(* C16.  An exception raised inside a tick (a remote call that fails, an   *)
(* empty alias answer) ends the tick at job(): the process is back in its  *)
(* loop with the job scheduled one period later, and in the loop the next  *)
(* run is never further away than one period, so that the next tick starts *)
(* (TickStart waits for nothing but the loop and the due time).            *)
(***************************************************************************)
C16_ExceptionCaught ==
    /\ outcome = "exception" => (pc = "idle" /\ next_run = now + JobPeriod)
    /\ pc = "idle" => next_run <= now + JobPeriod

\* a tick ended by the IndexError of an empty alias answer, every remote call
\* having succeeded
C16_Witness ==
    /\ outcome = "exception"
    /\ op.exc
    /\ AllOk(log)
    /\ RemoteCalls(log) # <<>>
    /\ pc = "idle"

(***************************************************************************)
(* C17.  Ticks never overlap: a tick (its first call is                    *)
(* update_active_gateway() without a target) starts only while no tick is  *)
(* executing, also when the running tick has lasted longer than the        *)
(* period of the trigger.                                                  *)
(***************************************************************************)
C17_NoOverlap ==
    [][(op'.name = "update_active_gateway" /\ op'.arg = None) => pc = "idle"]_vars

\* a tick is executing one period after the run that started it was due
C17_Witness ==
    /\ pc \notin {"idle"}
    /\ outcome = "running"
    /\ now >= next_run + JobPeriod

(***************************************************************************)
(* C18.  Every remote call of a tick is bounded by a timeout, so a tick    *)
(* terminates even if an endpoint never answers a request: the daemon is   *)
(* never found waiting for an answer without a limit.                      *)
(* Does not hold: the POST of alias_util/add and alias_util/delete and the *)
(* PUT of the DNS record are made without a timeout.                       *)
(***************************************************************************)
C18_TickTerminates == pc # "blocked"

\* every request the history shows was made with a timeout (does not hold)
C18_EveryCallBounded ==
    \A i \in DOMAIN log : log[i].res # "call" => RequestTimeout(log[i].call) # {}

\* the requests made with a timeout never leave the daemon waiting: it waits
\* on a write of an alias or of the DNS record only
C18_ReadsBounded ==
    (pc = "blocked" /\ log # <<>>) =>
        /\ Last(log).call \in {"add", "delete", "dns_put"}
        /\ Last(log).res = "unanswered"

\* the calls of a log to the router and to the DNS provider
RouterDnsCalls(lg) ==
    SelectSeq(lg, LAMBDA e : e.res # "call" /\ e.call \notin {"hc_start", "hc_success"})

\* the router calls a tick without monitoring may issue at its start from the
\* state it is started in: one sequence per outcome of its remote calls
UnmonitoredStart ==
    {RouterDnsCalls(update_active_gateway(
                        Enter(Machine, "update_active_gateway", None), fail, None).m.log) :
        fail \in {f \in FailInputs(update_active_gateway(
                            Enter(Machine, "update_active_gateway", None),
                            NoFail, None).m.n) :
                    FailUsed(update_active_gateway(
                                Enter(Machine, "update_active_gateway", None),
                                f, None).m, f)}}

(***************************************************************************)
(* C19.  A failure of the monitoring endpoint does not change what the     *)
(* tick does to the router and to the DNS record: a tick that starts with  *)
(* a start ping, failed or not, issues router calls that a tick without    *)
(* monitoring issues from the same state.                                  *)
(* Does not hold: a start ping that raises ends the tick before its first  *)
(* router call.                                                            *)
(***************************************************************************)
C19_MonitoringIgnored ==
    [][(pc = "idle" /\ log' # <<>> /\ log'[1].call = "hc_start")
          => RouterDnsCalls(log') \in UnmonitoredStart]_vars

\* the start ping raised and the tick has ended without a call to the router
C19_StartPingAborts ==
    /\ log # <<>>
    /\ log[1].call = "hc_start"
    /\ log[1].res = "raise"
    /\ RouterDnsCalls(log) = <<>>
    /\ outcome = "exception"
    /\ pc = "idle"

\* a tick whose start ping was answered, with an error status or not, issues
\* the router calls of a tick without monitoring
C19_StartPingAnswered ==
    [][(pc = "idle" /\ log' # <<>> /\ log'[1].call = "hc_start" /\ log'[1].res # "raise")
          => RouterDnsCalls(log') \in UnmonitoredStart]_vars

\* the success ping is the last call of the tick: whatever its outcome, the
\* router, the DNS record and the calls of the tick are what they were
C19_SuccessPingLast ==
    [][pc = "finish" =>
          /\ tick_calls' = tick_calls
          /\ <<aliasIp, aliasId, dnsRecord, cache, gcache>>' =
                <<aliasIp, aliasId, dnsRecord, cache, gcache>>
          /\ RouterDnsCalls(log') = <<>>]_vars

(***************************************************************************)
(* C20.  A value stored with set(key, value, t) is returned by get and     *)
(* reported by the containment check at every time before set-time + t,    *)
(* and is reported absent by both at every time after set-time + t (as     *)
(* long as the key is not set again or deleted).  With the timeout nan no   *)
(* time is before or after set-time + t.                                   *)
(***************************************************************************)
C20_LiveUntilExpiry ==
    \A h \in {x \in tick_calls : ~x.nan} :
        /\ (op.name = "get" /\ op.arg = h.key) =>
              /\ now < h.at + h.timeout => op.ret = h.item
              /\ now > h.at + h.timeout => op.ret = None
        /\ (op.name = "contains" /\ op.arg = h.key) =>
              /\ now < h.at + h.timeout => op.ret = TRUE
              /\ now > h.at + h.timeout => op.ret = FALSE

\* a get returns the item of a key some time after it was set, while a key
\* that was set before has expired and was reported absent
C20_Witness ==
    \E h \in tick_calls, x \in tick_calls :
        /\ ~h.nan /\ ~x.nan
        /\ op.name = "get" /\ op.arg = h.key /\ op.ret = h.item
        /\ now > h.at
        /\ now < h.at + h.timeout
        /\ x.key # h.key
        /\ now > x.at + x.timeout
        /\ x.key \notin DOMAIN cache

(***************************************************************************)
(* C21.  A set with a timeout that is zero, negative or not a number fails *)
(* at the point of set, with ValueError for a number and TypeError for a   *)
(* value of another type, and leaves the store exactly as it was.          *)
(* Does not hold: the float nan passes __validate_timeout and the entry is *)
(* written.                                                                *)
(***************************************************************************)
C21_InvalidTimeoutFails ==
    [][(/\ op'.name = "set"
        /\ \/ ~op'.timeout[1].number
           \/ op'.timeout[1].nan
           \/ op'.timeout[1].v <= 0)
          => /\ op'.exc
             /\ op'.ret = (IF op'.timeout[1].number THEN "ValueError" ELSE "TypeError")
             /\ cache' = cache]_vars

\* a set with a number that is zero or negative raises ValueError, one with a
\* value of another type raises TypeError, and both leave the store as it was;
\* a set that raises never changes the store
C21_RejectedUnchanged ==
    [][op'.name = "set" =>
          /\ (op'.timeout[1].number /\ ~op'.timeout[1].nan /\ op'.timeout[1].v <= 0)
                => (op'.exc /\ op'.ret = "ValueError")
          /\ ~op'.timeout[1].number => (op'.exc /\ op'.ret = "TypeError")
          /\ op'.exc => cache' = cache]_vars

\* a set with the timeout nan has replaced a live entry by one that has expired
C21_NanAccepted ==
    /\ op.name = "set" /\ ~op.exc
    /\ op.timeout[1].nan
    /\ op.was # <<>>
    /\ now < op.was[1].expiration_time
    /\ op.arg \in DOMAIN cache
    /\ ~Cache_contains(cache, op.arg)

(***************************************************************************)
(* C22.  A set, with a positive timeout, of a key that holds a live entry  *)
(* replaces its value and its expiry: the store then holds the new item    *)
(* with the expiration time of this set plus its timeout, whatever the     *)
(* entry before was, and a get returns the new item.                       *)
(***************************************************************************)
C22_OverwriteReplaces ==
    [][(/\ op'.name = "set"
        /\ ~op'.exc
        /\ ~op'.timeout[1].nan
        /\ op'.was # <<>>
        /\ now < op'.was[1].expiration_time)
          => \E h \in tick_calls' :
                /\ h.key = op'.arg
                /\ h.at = now
                /\ h.timeout = op'.timeout[1].v
                /\ cache'[h.key] = [value |-> h.item,
                                    expiration_time |-> now + h.timeout]
                /\ Cache_getitem(cache', h.key) = h.item]_vars

\* a set has replaced a live entry by another item that expires earlier
C22_Witness ==
    /\ op.name = "set" /\ ~op.exc /\ ~op.timeout[1].nan
    /\ op.was # <<>>
    /\ now < op.was[1].expiration_time
    /\ cache[op.arg].value # op.was[1].value
    /\ cache[op.arg].expiration_time < op.was[1].expiration_time

(***************************************************************************)
(* C23.  After a delete the key is absent: the store has no entry for it,  *)
(* get returns None and the containment check is false.  A delete raises   *)
(* nothing, also for a key that is missing or has expired, and leaves      *)
(* every other entry of the store as it was.                               *)
(***************************************************************************)
C23_DeleteRemovesKeyOnly ==
    [][op'.name = "del" =>
          /\ ~op'.exc
          /\ op'.arg \notin DOMAIN cache'
          /\ Cache_getitem(cache', op'.arg) = None
          /\ ~Cache_contains(cache', op'.arg)
          /\ DOMAIN cache' = DOMAIN cache \ {op'.arg}
          /\ \A k \in DOMAIN cache' : cache'[k] = cache[k]]_vars

\* a key that had expired was deleted while the store held another entry
C23_Witness ==
    /\ op.name = "del" /\ ~op.exc
    /\ op.was # <<>>
    /\ now >= op.was[1].expiration_time
    /\ DOMAIN cache # {}

(***************************************************************************)
(* C25.  expires_in(key) returns, for a live key, the stored expiration    *)
(* time minus the time of the call: a positive number, the time left       *)
(* until the set in effect expires, and its timeout when no time has       *)
(* passed since the set.  It returns None for a key that is missing or     *)
(* has expired.                                                            *)
(***************************************************************************)
C25_ExpiresIn ==
    op.name = "expires_in" =>
        /\ (op.was # <<>> /\ now < op.was[1].expiration_time) =>
              /\ op.ret = <<op.was[1].expiration_time - now>>
              /\ op.ret[1] > 0
        /\ (op.was = <<>> \/ now >= op.was[1].expiration_time) => op.ret = <<>>
        /\ \A h \in tick_calls :
              (h.key = op.arg /\ ~h.nan) =>
                  /\ now < h.at + h.timeout => op.ret = <<h.at + h.timeout - now>>
                  /\ now = h.at => op.ret = <<h.timeout>>
                  /\ now >= h.at + h.timeout => op.ret = <<>>
        /\ (\A h \in tick_calls : h.key # op.arg) => op.ret = <<>>

\* expires_in has returned the time left of an entry some time after it was set
C25_Witness ==
    \E h \in tick_calls :
        /\ op.name = "expires_in" /\ op.arg = h.key
        /\ ~h.nan
        /\ now > h.at
        /\ op.ret # <<>>
        /\ op.ret[1] < h.timeout

(***************************************************************************)
(* C24.  Expiration is lazy.  A get or a containment check on an entry     *)
(* that has expired removes the entry and reports the key absent.  An      *)
(* entry leaves the store or changes only by an operation on its key: a    *)
(* delete, a set, or an access (a containment check, made also by get and  *)
(* by expires_in) after it has expired.  An access to a live entry leaves  *)
(* the store as it was.                                                    *)
(***************************************************************************)
C24_LazyExpiration ==
    [][/\ (/\ op'.name \in {"get", "contains"}
           /\ op'.was # <<>>
           /\ now >= op'.was[1].expiration_time)
             => /\ op'.arg \notin DOMAIN cache'
                /\ op'.name = "get" => op'.ret = None
                /\ op'.name = "contains" => op'.ret = FALSE
       /\ \A k \in DOMAIN cache :
             (k \notin DOMAIN cache' \/ cache'[k] # cache[k])
                => /\ op'.arg = k
                   /\ \/ op'.name \in {"del", "set"}
                      \/ /\ op'.name \in {"get", "contains", "expires_in"}
                         /\ now >= cache[k].expiration_time
       /\ (/\ op'.name \in {"get", "contains", "expires_in"}
           /\ op'.was # <<>>
           /\ now < op'.was[1].expiration_time)
             => cache' = cache]_vars

\* a get has removed an entry that had expired, and the store still holds an
\* entry of another key that has expired too
C24_Witness ==
    /\ op.name = "get"
    /\ op.was # <<>>
    /\ now > op.was[1].expiration_time
    /\ op.arg \notin DOMAIN cache
    /\ \E k \in DOMAIN cache : now > cache[k].expiration_time

(***************************************************************************)
(* C26.  When several gateways of the directory share the lowest priority  *)
(* number, the priority target is the one with the lowest name, whatever   *)
(* the order of the configured interfaces (the order of the directory).    *)
(* Does not hold: min() returns the first of them in directory order.      *)
(***************************************************************************)
C26_LowestNameOnTie ==
    op.name = "priority_gateway" =>
        LET order == <<"wan1", "wan2", "wan3">>
            rank(w) == CHOOSE i \in DOMAIN order : order[i] = w
        IN  \A j \in DOMAIN available_gateways :
               (\A k \in DOMAIN available_gateways :
                    available_gateways[j].priority <= available_gateways[k].priority)
                  => rank(op.wan) <= rank(available_gateways[j].name)

\* among the gateways that share the lowest priority number the target is the
\* first of the directory
C26_FirstConfiguredOnTie ==
    op.name = "priority_gateway" =>
        \E i \in DOMAIN available_gateways :
            /\ available_gateways[i].name = op.wan
            /\ \A j \in DOMAIN available_gateways :
                 /\ available_gateways[i].priority <= available_gateways[j].priority
                 /\ available_gateways[i].priority = available_gateways[j].priority
                       => i <= j

\* the directory {wan2: 5, wan1: 5}: the target is wan2
C26_TieTakesFirst ==
    /\ op.name = "priority_gateway"
    /\ Len(available_gateways) = 2
    /\ available_gateways[1].name = "wan2" /\ available_gateways[1].priority = 5
    /\ available_gateways[2].name = "wan1" /\ available_gateways[2].priority = 5
    /\ op.wan = "wan2"

\* update_active_gateway has returned without an exception, called without a
\* target or with the name of the active gateway, which is not in the
\* directory or is there with the address that was resolved
C27_NothingToDo(o) ==
    /\ o.name = "update_active_gateway"
    /\ ~o.exc
    /\ o.arg = None \/ o.arg = o.wan
    /\ \/ o.wan = None
       \/ ~InDir(o.gateways, o.wan)
       \/ DirGet(o.gateways, o.wan).ip = o.ip

(***************************************************************************)
(* C27.  update_active_gateway without a target, or with the name of the   *)
(* active gateway, whose address has not drifted, returns False, issues no *)
(* add or delete on an alias and leaves the active-gateway entries of the  *)
(* cache as they were before the call.                                     *)
(* Does not hold for the entries: the call resolves the active gateway,    *)
(* which writes the entries it misses and deletes them when the id of the  *)
(* alias is the id of no gateway.                                          *)
(***************************************************************************)
C27_NoopLeavesCache ==
    [][C27_NothingToDo(op') =>
          /\ ~op'.ret
          /\ Writes(log') = <<>>
          /\ ActiveEntries(cache') = ActiveEntries(cache)]_vars

(***************************************************************************)
(* C27, amended.  Such a call returns False, issues no add or delete on an *)
(* alias, and leaves the store as all_gateways() followed by               *)
(* active_gateway() leave it.                                              *)
(***************************************************************************)
C27_NoopOnlyResolves ==
    [][C27_NothingToDo(op') =>
          /\ ~op'.ret
          /\ Writes(log') = <<>>
          /\ AllOk(log')
          /\ cache' = client_active_gateway(all_gateways(Machine, NoFail).m,
                                            NoFail).m.cache]_vars

\* a call with the name of the active gateway, read from the router, has
\* returned False
C27_Witness ==
    /\ C27_NothingToDo(op)
    /\ op.arg = op.wan
    /\ op.arg # None
    /\ ~op.ret
    /\ RemoteCalls(log) # <<>>
    /\ AllOk(log)
    /\ Writes(log) = <<>>
    /\ ACTIVE_GATEWAY_IP \in DOMAIN cache

\* such a call keeps the active-gateway entries that were live when it was
\* made (does not hold)
C27_NoopKeepsLiveEntries ==
    [][C27_NothingToDo(op') =>
          \A k \in ActiveKeys :
              Cache_contains(cache, k) => (k \in DOMAIN cache' /\ cache'[k] = cache[k])]_vars

\* update_active_gateway was called without a target and has found the active
\* gateway in the directory with an address that is not the resolved one
C28_Drifted(o) ==
    /\ o.name = "update_active_gateway"
    /\ o.arg = None
    /\ o.wan # None
    /\ InDir(o.gateways, o.wan)
    /\ DirGet(o.gateways, o.wan).ip # o.ip

\* the id and name entries of a store (the gateway entry of opnsense.py
\* holds the name)
C28_IdName(store) ==
    [k \in DOMAIN store \cap {ACTIVE_GATEWAY_ID, ACTIVE_GATEWAY_NAME, ACTIVE_GATEWAY}
        |-> store[k]]

(***************************************************************************)
(* C28.  update_active_gateway without a target, when the active gateway   *)
(* is in the directory with an address that differs from the resolved      *)
(* one, issues exactly the delete and the add on the IP alias, issues no   *)
(* call on the ID alias, and leaves the id and name entries of the cache   *)
(* as they were before the call.                                           *)
(* Does not hold: a delete that fails is not followed by the add, and the  *)
(* resolution of the active gateway reads the ID alias and writes the id   *)
(* and name entries when they are missing.                                 *)
(***************************************************************************)
C28_DriftSwapsIpOnly ==
    [][C28_Drifted(op') =>
          /\ Len(Writes(log')) = 2
          /\ Writes(log')[1].call = "delete" /\ Writes(log')[1].alias = ACTIVE_WAN_ALIAS
          /\ Writes(log')[2].call = "add" /\ Writes(log')[2].alias = ACTIVE_WAN_ALIAS
          /\ \A i \in DOMAIN log' : log'[i].alias # ACTIVE_WAN_ID_ALIAS
          /\ C28_IdName(cache') = C28_IdName(cache)]_vars

(***************************************************************************)
(* C28, amended.  Such a call issues the delete of the resolved address on *)
(* the IP alias and, when the delete was answered with success, the add of *)
(* the address of the directory; these are its only writes, none is on the *)
(* ID alias, and the id and name entries of the cache are those that       *)
(* all_gateways() followed by active_gateway() leave.                      *)
(***************************************************************************)
C28_DriftWritesIpAlias ==
    [][C28_Drifted(op') =>
          /\ Len(Writes(log')) \in {1, 2}
          /\ Writes(log')[1].call = "delete"
          /\ Writes(log')[1].alias = ACTIVE_WAN_ALIAS
          /\ Writes(log')[1].arg = op'.ip
          /\ Len(Writes(log')) = 2 <=> Writes(log')[1].res = "ok"
          /\ Len(Writes(log')) = 2 =>
                /\ Writes(log')[2].call = "add"
                /\ Writes(log')[2].alias = ACTIVE_WAN_ALIAS
                /\ Writes(log')[2].arg = DirGet(op'.gateways, op'.wan).ip
          /\ aliasId' = aliasId
          /\ C28_IdName(cache') =
                C28_IdName(client_active_gateway(all_gateways(Machine, NoFail).m,
                                                 NoFail).m.cache)]_vars

\* the address of the active gateway had changed, and the call has replaced
\* it in the IP alias
C28_Witness ==
    /\ C28_Drifted(op)
    /\ op.ret
    /\ AllOk(log)
    /\ Len(Writes(log)) = 2
    /\ aliasIp = <<DirGet(op.gateways, op.wan).ip>>
    /\ ACTIVE_GATEWAY_ID \in DOMAIN cache

\* update_active_gateway was called with a target of the directory that is
\* not the active gateway, and every remote call it issued was answered with
\* success
C29_TargetAllOk(o) ==
    /\ o.name = "update_active_gateway"
    /\ o.arg # None
    /\ InDir(o.gateways, o.arg)
    /\ o.arg # o.wan
    /\ o.case = "target"
    /\ AllOk(log)

(***************************************************************************)
(* C29.  update_active_gateway(target), with a target of the directory     *)
(* that is not the active gateway and every remote call answered with      *)
(* success, returns True without raising; the IP alias then holds exactly  *)
(* the address of the target and the ID alias exactly its id.  In main.py  *)
(* and in opnsense.py.                                                     *)
(* Does not hold in opnsense.py: the call raises after the swap of the IP  *)
(* alias.                                                                  *)
(***************************************************************************)
C29_SwitchSucceeds ==
    C29_TargetAllOk(op) =>
        /\ ~op.exc
        /\ op.ret
        /\ aliasIp = <<DirGet(op.gateways, op.arg).ip>>
        /\ aliasId = <<DirGet(op.gateways, op.arg).id>>

\* the claim holds in main.py
C29_SwitchSucceedsMain == impl = "main" => C29_SwitchSucceeds

\* in opnsense.py such a call raises with the IP alias swapped and the ID
\* alias as it was
C29_LibRaises ==
    /\ impl = "lib"
    /\ C29_TargetAllOk(op)
    /\ op.exc
    /\ Len(Writes(log)) = 2
    /\ aliasIp = <<DirGet(op.gateways, op.arg).ip>>
    /\ aliasId # <<DirGet(op.gateways, op.arg).id>>

\* the cache keys that belong to an alias: the address for the IP alias, the
\* id and (in main.py, which stores it) the name for the ID alias
C30_Keys(alias) ==
    IF alias = ACTIVE_WAN_ALIAS THEN {ACTIVE_GATEWAY_IP}
    ELSE IF impl = "main" THEN {ACTIVE_GATEWAY_ID, ACTIVE_GATEWAY_NAME}
    ELSE {ACTIVE_GATEWAY_ID}

\* the value the swap of an alias wrote to the router, as the entry `key` of
\* the cache has to hold it
C30_Written(key, added) ==
    IF key = ACTIVE_GATEWAY_NAME THEN C7_NewName ELSE added

(***************************************************************************)
(* C30.  In update_active_gateway the cache entries of an alias (the       *)
(* address for the IP alias, the id and the name for the ID alias) are     *)
(* absent from the first delete or add sent for that alias until its add   *)
(* is answered with success: a call that stops in between, by a refusal or *)
(* an exception, leaves them absent.  Once the add is answered with        *)
(* success they hold exactly the value just added.                         *)
(* Does not hold in opnsense.py: after the confirmed add on the IP alias   *)
(* the call raises and the entry stays absent.                             *)
(***************************************************************************)
C30_InvalidateThenRefresh ==
    op.name = "update_active_gateway" =>
        \A i \in DOMAIN log :
            log[i].call \in {"delete", "add"} =>
                IF \E j \in DOMAIN log : /\ log[j].call = "add"
                                         /\ log[j].alias = log[i].alias
                                         /\ log[j].res = "ok"
                THEN \A j \in DOMAIN log :
                        ( /\ log[j].call = "add"
                          /\ log[j].alias = log[i].alias ) =>
                            \A key \in C30_Keys(log[i].alias) :
                                /\ Cache_contains(cache, key)
                                /\ cache[key].value = C30_Written(key, log[j].arg)
                ELSE \A key \in C30_Keys(log[i].alias) : key \notin DOMAIN cache

\* the claim holds in main.py
C30_InvalidateThenRefreshMain == impl = "main" => C30_InvalidateThenRefresh

\* in main.py both swaps were confirmed and the three entries were refreshed
C30_MainRefreshed ==
    /\ impl = "main"
    /\ op.name = "update_active_gateway"
    /\ op.ret
    /\ Len(Writes(log)) = 4
    /\ AllOk(log)
    /\ \A key \in {ACTIVE_GATEWAY_IP, ACTIVE_GATEWAY_ID, ACTIVE_GATEWAY_NAME} :
          Cache_contains(cache, key)

\* in main.py a swap stopped between its delete and its add by an exception
\* and the entry is absent
C30_MainStopped ==
    /\ impl = "main"
    /\ op.name = "update_active_gateway"
    /\ op.exc
    /\ Len(Writes(log)) = 2
    /\ log[Len(log)].call = "add"
    /\ log[Len(log)].res # "ok"
    /\ ACTIVE_GATEWAY_IP \notin DOMAIN cache

\* in opnsense.py the add on the IP alias was confirmed and the entry is absent
C30_LibNotRefreshed ==
    /\ impl = "lib"
    /\ op.name = "update_active_gateway"
    /\ \E j \in DOMAIN log : /\ log[j].call = "add"
                             /\ log[j].alias = ACTIVE_WAN_ALIAS
                             /\ log[j].res = "ok"
    /\ ACTIVE_GATEWAY_IP \notin DOMAIN cache

\* the router's view of the interfaces when the tick started
StartDir == BuildGateways(tick_start[1].ifcfg, 1)

\* the gateways of that view whose id the ID alias held when the tick started
StartActive ==
    SelectSeq(StartDir, LAMBDA g : tick_start[1].aliasId = <<g.id>>)

\* when the tick started, the interface named by the ID alias was in the
\* directory and was the priority target
StartActiveIsTarget ==
    /\ tick_start # <<>>
    /\ StartActive # <<>>
    /\ PriorityGateway(StartDir).name = StartActive[1].name

\* the tick has returned normally, every alias write and DNS call of it was
\* answered with success, and the interfaces have not changed since it started
TickAllOk ==
    /\ pc = "idle"
    /\ outcome = "ok"
    /\ tick_start # <<>>
    /\ tick_start[1].stable
    /\ \A c \in tick_calls : c.res = "ok"

\* when the tick started the address of the active interface had changed:
\* the IP alias and the DNS record held another, single address
C31_Drifted ==
    /\ StartActiveIsTarget
    /\ Len(tick_start[1].aliasIp) = 1
    /\ tick_start[1].aliasIp[1] # StartActive[1].ip
    /\ tick_start[1].dns = tick_start[1].aliasIp[1]

(***************************************************************************)
(* C31.  IP drift: when the active interface is still the priority target  *)
(* and its address has changed from a to b, the IP alias and the DNS       *)
(* record still holding a, a tick in which every remote call succeeds ends *)
(* with the IP alias equal to b, the ID alias unchanged and the DNS record *)
(* equal to b.                                                             *)
(***************************************************************************)
C31_DriftRepaired ==
    (TickAllOk /\ C31_Drifted) =>
        /\ aliasIp = <<StartActive[1].ip>>
        /\ aliasId = tick_start[1].aliasId
        /\ dnsRecord = StartActive[1].ip

\* a tick that started with a drifted address has ended, having added the
\* new address to the IP alias and published it
C31_Witness ==
    /\ TickAllOk
    /\ C31_Drifted
    /\ \E c \in tick_calls : /\ c.call = "add"
                             /\ c.alias = ACTIVE_WAN_ALIAS
                             /\ c.arg = StartActive[1].ip
    /\ \E c \in tick_calls : c.call = "dns_put" /\ c.arg = StartActive[1].ip

\* when the tick started the router and the DNS record were settled: the
\* active interface was the priority target, the IP alias held its address
\* and the DNS record held that address
C32_Settled ==
    /\ StartActiveIsTarget
    /\ tick_start[1].stable
    /\ tick_start[1].aliasIp = <<StartActive[1].ip>>
    /\ tick_start[1].dns = StartActive[1].ip

(***************************************************************************)
(* C32.  Quiescence: a tick that starts with the active gateway alive and  *)
(* priority target, the IP alias holding its directory address and the DNS *)
(* record holding that address, issues no alias add or delete and no DNS   *)
(* update, and leaves the two aliases and the DNS record as they were;     *)
(* the next tick then starts settled again, so that any number of repeated *)
(* ticks change nothing.                                                   *)
(***************************************************************************)
C32_Quiescent ==
    C32_Settled =>
        /\ \A c \in tick_calls : c.call \notin {"delete", "add", "dns_put"}
        /\ aliasIp = tick_start[1].aliasIp
        /\ aliasId = tick_start[1].aliasId
        /\ dnsRecord = tick_start[1].dns

\* a settled tick has run to its end: it has resolved the active gateway and
\* compared the DNS record
C32_Witness ==
    /\ C32_Settled
    /\ pc = "idle"
    /\ outcome = "ok"
    /\ current_gateway = StartActive[1].name
    /\ domain_ip_local = current_ip

\* the step that has just run sent an update of the DNS record
Published ==
    /\ op.name = "set_domain_ip"
    /\ \E i \in DOMAIN log : log[i].call = "dns_put"

(***************************************************************************)
(* C33.  Whenever a tick sends an address to the DNS provider, that        *)
(* address is the one the IP alias of the router holds at that moment: the *)
(* tick never publishes the address of a gateway that                      *)
(* update_active_gateway(target) failed to make active.                    *)
(* Does not hold: daemon() does not look at what update_active_gateway     *)
(* returns.                                                                *)
(***************************************************************************)
C33_PublishesActiveIp ==
    Published => aliasIp = <<op.arg>>

\* update_active_gateway(target) returned False after a refused delete, and
\* the tick has published the address of the target while the IP alias holds
\* the old address
C33_PublishedInactive ==
    /\ Published
    /\ \E c \in tick_calls : /\ c.step \in {"switch", "replace"}
                             /\ c.call = "delete"
                             /\ c.alias = ACTIVE_WAN_ALIAS
                             /\ c.res = "failed"
    /\ dnsRecord = op.arg
    /\ Len(aliasIp) = 1
    /\ aliasIp[1] # op.arg

\* the tick has returned normally with a directory that is not empty, and the
\* interfaces have not changed since it started
TickReturned ==
    /\ pc = "idle"
    /\ outcome = "ok"
    /\ available_gateways # <<>>
    /\ tick_start # <<>>
    /\ tick_start[1].stable

(***************************************************************************)
(* C34.  At the end of every tick that returns normally with a directory   *)
(* that is not empty, the IP alias and the ID alias designate the same     *)
(* interface: the IP alias holds the address of the interface whose id the *)
(* ID alias holds.                                                         *)
(* Does not hold: the tick goes on after an update_active_gateway(target)  *)
(* that swapped the IP alias and failed on the ID alias.                   *)
(***************************************************************************)
C34_AliasesAgree ==
    TickReturned =>
        \E i \in DOMAIN available_gateways :
            /\ aliasId = <<available_gateways[i].id>>
            /\ aliasIp = <<available_gateways[i].ip>>

\* a tick has returned normally with the IP alias on the address of the
\* target and the ID alias still on the id of the gateway it replaced: the
\* swap of the IP alias succeeded and the delete on the ID alias was refused.
\* When the tick started the two aliases agreed.
C34_SplitAliases ==
    /\ TickReturned
    /\ StartActive # <<>>
    /\ tick_start[1].aliasIp = <<StartActive[1].ip>>
    /\ \E c \in tick_calls : /\ c.call = "add"
                             /\ c.alias = ACTIVE_WAN_ALIAS
                             /\ c.res = "ok"
    /\ \E c \in tick_calls : /\ c.call = "delete"
                             /\ c.alias = ACTIVE_WAN_ID_ALIAS
                             /\ c.res = "failed"
    /\ aliasIp = <<priority_ip>>
    /\ aliasId = tick_start[1].aliasId
    /\ aliasId # <<PriorityGateway(available_gateways).id>>

(***************************************************************************)
(* C35.  In every reachable state each of the two aliases Active_WAN and   *)
(* Active_WAN_Id holds at most one value, and the old value passed to a    *)
(* delete call is the value the alias holds: a swap never adds a value     *)
(* next to one it did not remove.  Nothing but the client writes the       *)
(* aliases.  In main.py and in opnsense.py.                                *)
(* Does not hold in opnsense.py, which takes the old value from a cache    *)
(* entry that its own swap has left stale.                                 *)
(***************************************************************************)
C35_SingleValued ==
    /\ Len(aliasIp) <= 1
    /\ Len(aliasId) <= 1
    /\ \A i \in DOMAIN log :
          log[i].call = "delete" => log[i].was = <<log[i].arg>>

\* the claim holds in main.py
C35_SingleValuedMain == impl = "main" => C35_SingleValued

\* in opnsense.py a swap has added an address next to one it did not remove
C35_LibTwoValues ==
    /\ impl = "lib"
    /\ Len(aliasIp) = 2
    /\ \E i \in DOMAIN log :
          /\ log[i].call = "delete"
          /\ log[i].alias = ACTIVE_WAN_ALIAS
          /\ log[i].res = "ok"
          /\ log[i].was # <<log[i].arg>>

\* the step that has just run sent the success ping
SuccessPing == \E i \in DOMAIN log : log[i].call = "hc_success"

\* an update_active_gateway(target) or a set_domain_ip of the tick returned
\* False because the router or the DNS provider refused a request
ReportedFailure ==
    \/ \E c \in tick_calls : /\ c.step \in {"switch", "replace"}
                             /\ c.call \in {"delete", "add"}
                             /\ c.res = "failed"
    \/ \E c \in tick_calls : c.call = "dns_put" /\ c.res = "failed"

(***************************************************************************)
(* C36.  The success ping is sent only at the end of a tick in which no    *)
(* update_active_gateway(target) and no set_domain_ip reported failure; a  *)
(* tick that aborts on an empty directory or on an exception sends none.   *)
(* Does not hold: daemon() does not look at what the two methods return.   *)
(***************************************************************************)
C36_PingOnlyAfterSuccess ==
    /\ SuccessPing => ~ReportedFailure
    /\ (pc = "idle" /\ outcome \in {"no_gateways", "exception"}) =>
          \A i \in DOMAIN log : log[i].call = "hc_success" => log[i].res = "raise"

\* a tick that aborts on an empty directory or on an exception of one of its
\* calls sends no success ping: the only exception that ends a tick after
\* the ping is the one of the ping itself
C36_AbortedNoPing ==
    (pc = "idle" /\ outcome \in {"no_gateways", "exception"}) =>
        \A i \in DOMAIN log : log[i].call = "hc_success" => log[i].res = "raise"

\* the success ping was sent and answered at the end of a tick in which
\* update_active_gateway(target) had returned False
C36_PingAfterFailedSwitch ==
    /\ pc = "idle"
    /\ outcome = "ok"
    /\ \E i \in DOMAIN log : log[i].call = "hc_success" /\ log[i].res = "ok"
    /\ \E c \in tick_calls : /\ c.step \in {"switch", "replace"}
                             /\ c.call \in {"delete", "add"}
                             /\ c.res = "failed"

\* the success ping was sent and answered at the end of a tick in which
\* set_domain_ip had returned False
C36_PingAfterFailedPublish ==
    /\ pc = "idle"
    /\ outcome = "ok"
    /\ \E i \in DOMAIN log : log[i].call = "hc_success" /\ log[i].res = "ok"
    /\ \E c \in tick_calls : c.call = "dns_put" /\ c.res = "failed"

====
